---- MODULE Spec2Model ----
(***************************************************************************)
(* Cascade simulator, response-surface builder and threshold deriver.      *)
(*                                                                         *)
(* Numbers.  The program computes with IEEE doubles.  A number is modelled *)
(* as a tagged value: a finite fixed-point value with Scale units per 1.0  *)
(* (products and quotients rounded to the nearest unit), or one of the     *)
(* non-finite values NaN, +Infinity, -Infinity, with JavaScript's rules    *)
(* for them (x/0, 0*Infinity, Math.min/Math.max with NaN, comparisons with *)
(* NaN, truthiness of 0 and NaN).  Signed zero is not modelled: every zero *)
(* is +0.                                                                  *)
(***************************************************************************)
EXTENDS Integers, Sequences, FiniteSets, TLC

\* Fixed-point unit: 10^3 units per 1.0 (0.001 is the smallest program constant).
Scale == 10 * 10 * 10

Fin(n) == [k |-> "fin", v |-> n]
NaN == [k |-> "nan", v |-> 0]
PInf == [k |-> "inf", v |-> 1]
NInf == [k |-> "inf", v |-> -1]
Undef == [k |-> "undef", v |-> 0]
\* a Promise: what a call of an async function returns
Promise == [k |-> "promise", v |-> 0]

Zero == Fin(0)
One == Fin(Scale)
\* n/d as a number, e.g. Frac(1, 10) is 0.1
Frac(n, d) == Fin((n * Scale) \div d)

IsFin(x) == x.k = "fin"
IsNaN(x) == x.k = "nan" \/ x.k = "undef"
IsInf(x) == x.k = "inf"

Abs(n) == IF n < 0 THEN -n ELSE n
Sgn(n) == IF n < 0 THEN -1 ELSE IF n > 0 THEN 1 ELSE 0
\* n / d rounded to the nearest integer (ties away from zero), d # 0
RoundDiv(n, d) == Sgn(n) * Sgn(d) * ((2 * Abs(n) + Abs(d)) \div (2 * Abs(d)))

\* sign of a non-NaN number: -1, 0, 1
SignOf(x) == IF IsInf(x) THEN x.v ELSE Sgn(x.v)
InfOf(s) == IF s < 0 THEN NInf ELSE PInf

\* a + b.  With a Promise as operand + concatenates strings ("[object Promise]1");
\* the result is read only as a number, which such a string is not: NaN
Add(a, b) ==
  IF a = Promise \/ b = Promise THEN NaN
  ELSE IF IsNaN(a) \/ IsNaN(b) THEN NaN
  ELSE IF IsInf(a) /\ IsInf(b) THEN (IF a.v = b.v THEN a ELSE NaN)
  ELSE IF IsInf(a) THEN a
  ELSE IF IsInf(b) THEN b
  ELSE Fin(a.v + b.v)

\* -a
Neg(a) == IF IsNaN(a) THEN NaN ELSE IF IsInf(a) THEN InfOf(-a.v) ELSE Fin(-a.v)

\* a - b
Sub(a, b) == Add(a, Neg(b))

\* a * b
Mul(a, b) ==
  IF IsNaN(a) \/ IsNaN(b) THEN NaN
  ELSE IF IsInf(a) \/ IsInf(b)
    THEN (IF SignOf(a) = 0 \/ SignOf(b) = 0 THEN NaN ELSE InfOf(SignOf(a) * SignOf(b)))
  ELSE Fin(RoundDiv(a.v * b.v, Scale))

\* a / b
Div(a, b) ==
  IF IsNaN(a) \/ IsNaN(b) THEN NaN
  ELSE IF IsInf(a) THEN (IF IsInf(b) THEN NaN
                         ELSE InfOf(a.v * (IF SignOf(b) < 0 THEN -1 ELSE 1)))
  ELSE IF IsInf(b) THEN Zero
  ELSE IF b.v = 0 THEN (IF a.v = 0 THEN NaN ELSE InfOf(Sgn(a.v)))
  ELSE Fin(RoundDiv(a.v * Scale, b.v))

\* a < b (false when either is NaN)
Lt(a, b) ==
  IF IsNaN(a) \/ IsNaN(b) THEN FALSE
  ELSE IF IsInf(a) THEN (a.v < 0 /\ ~(IsInf(b) /\ b.v < 0))
  ELSE IF IsInf(b) THEN b.v > 0
  ELSE a.v < b.v

Gt(a, b) == Lt(b, a)
\* a <= b (false when either is NaN)
Le(a, b) == ~IsNaN(a) /\ ~IsNaN(b) /\ ~Lt(b, a)
Ge(a, b) == Le(b, a)

\* Math.min(a, b), Math.max(a, b)
MathMin(a, b) == IF IsNaN(a) \/ IsNaN(b) THEN NaN ELSE IF Lt(b, a) THEN b ELSE a
MathMax(a, b) == IF IsNaN(a) \/ IsNaN(b) THEN NaN ELSE IF Lt(a, b) THEN b ELSE a

\* JavaScript truthiness of a number or undefined: 0, NaN and undefined are falsy
Truthy(x) == ~IsNaN(x) /\ ~(IsFin(x) /\ x.v = 0)
\* x || y
OrElse(x, y) == IF Truthy(x) THEN x ELSE y

\* Math.floor of a finite number, as an integer
FloorInt(x) == x.v \div Scale

RECURSIVE ISqrt(_, _, _)
\* largest r in lo..hi with r*r <= n (n >= 0, lo*lo <= n < (hi+1)*(hi+1)), by bisection
ISqrt(n, lo, hi) ==
  IF lo >= hi THEN lo
  ELSE LET mid == (lo + hi + 1) \div 2
       IN IF mid * mid <= n THEN ISqrt(n, mid, hi) ELSE ISqrt(n, lo, mid - 1)

\* Math.pow(x, e) for the exponents the model uses: 0, 1/2 and 1
MathPow(x, e) ==
  IF e = Zero THEN One
  ELSE IF IsNaN(x) THEN NaN
  ELSE IF e = One THEN x
  ELSE IF IsInf(x) THEN (IF x.v > 0 THEN PInf ELSE NaN)
  ELSE IF x.v < 0 THEN NaN
  ELSE Fin(ISqrt(x.v * Scale, 0, 40 * Scale))

\* src/unnamed/part_002:368  clamp01
clamp01(x) == MathMax(Zero, MathMin(One, x))


(***************************************************************************)
(* Containers.  A JavaScript object keyed by region id is a function whose *)
(* DOMAIN is the set of keys written; reading a missing key is undefined.  *)
(***************************************************************************)
Get(m, key) == IF key \in DOMAIN m THEN m[key] ELSE Undef

SeqToSet(s) == {s[i] : i \in 1..Len(s)}

RECURSIVE SumOver(_, _, _)
\* arr.reduce((s, x) => s + f[x], 0) over the first n elements of arr
SumOver(arr, f, n) == IF n = 0 THEN Zero ELSE Add(SumOver(arr, f, n - 1), f[arr[n]])

Last(q) == q[Len(q)]

RECURSIVE SumValues(_, _)
\* Object.values(f).reduce((s, v) => s + v, 0) over the keys in S
SumValues(f, S) ==
  IF S = {} THEN Zero
  ELSE LET x == CHOOSE y \in S : TRUE IN Add(f[x], SumValues(f, S \ {x}))

\* Null: the value null of the metrics' peak times
Null == [k |-> "null", v |-> 0]

(***************************************************************************)
(* Inputs of a run: everything runCascadeSimulation receives.              *)
(*   regions      densityProvider.listRegions(), in order                  *)
(*   density      densityProvider.getDensity(id, t), by t then id          *)
(*   edges        the mobility graph's edges [from, to, weight] in the     *)
(*                order the nested scan of reverseEdgesForRegion meets them *)
(*   theta        the parameter vector                                     *)
(*   sim          simConfig; popByRegion, initialFearByRegion and an       *)
(*                explicit weight map are total over the id universe with  *)
(*                0 for a missing key: the code reads them only as         *)
(*                `m[r] || 0` or sums their values, where a missing key    *)
(*                and 0 are the same.                                      *)
(* An option left out of adoptionParams / fearParams is Undef and takes    *)
(* the default of the destructuring that reads it.                         *)
(***************************************************************************)
Dflt(x, d) == IF x = Undef THEN d ELSE x

\* the booleans true and false as option values
BoolT == [k |-> "bool", v |-> 1]
BoolF == [k |-> "bool", v |-> 0]

\* popByRegion[r] || 0
PopOf(popByRegion, r) == OrElse(Get(popByRegion, r), Zero)

\* every region given the whole weight
UniformWeightsWhole(regions) == [r \in SeqToSet(regions) |-> One]

\* src/unnamed/part_002:135  computeSpatialFocusWeights
UniformWeights(regions) ==
  [r \in SeqToSet(regions) |-> Div(One, Fin(Len(regions) * Scale))]

\* the explicit branch: the sum runs over every value of the supplied map
ExplicitSum(raw) == OrElse(SumValues(raw, DOMAIN raw), One)

ExplicitWeights(regions, raw) ==
  [r \in SeqToSet(regions) |-> Div(OrElse(Get(raw, r), Zero), ExplicitSum(raw))]

\* the centers weighted by their share of the whole listed population
KernelWeightsOverAll(regions, centerIds, popByRegion) ==
  LET centers == SeqToSet(centerIds)
      pops == [r \in SeqToSet(regions) |-> PopOf(popByRegion, r)]
      totalPop == OrElse(SumOver(regions, pops, Len(regions)), One)
  IN [r \in SeqToSet(regions) |->
        IF r \in centers
          THEN OrElse(Div(pops[r], totalPop), Zero)
          ELSE Mul(Frac(1, 1000), Div(pops[r], totalPop))]

\* lines 150-166: the kernel branch
KernelWeights(regions, centerIds, popByRegion) ==
  LET centers == SeqToSet(centerIds)
      pops == [r \in SeqToSet(regions) |-> PopOf(popByRegion, r)]
      centerPops == [r \in SeqToSet(regions) |->
                       IF r \in centers THEN pops[r] ELSE Zero]
      centerPop == SumOver(regions, centerPops, Len(regions))
      totalPop == OrElse(SumOver(regions, pops, Len(regions)), One)
  IN [r \in SeqToSet(regions) |->
        IF r \in centers
          THEN OrElse(Div(pops[r], centerPop), Zero)
          ELSE Mul(Frac(1, 1000), Div(pops[r], totalPop))]

computeSpatialFocusWeights(regions, spatialFocus, popByRegion) ==
  IF spatialFocus.type = "none" \/ spatialFocus.type = "uniform"
    THEN UniformWeights(regions)
  ELSE IF spatialFocus.type = "explicit" /\ spatialFocus.hasWeights
    THEN ExplicitWeights(regions, spatialFocus.weights)
  ELSE IF spatialFocus.type = "kernel" /\ Len(spatialFocus.centerIds) > 0
    THEN KernelWeights(regions, spatialFocus.centerIds, popByRegion)
  ELSE UniformWeights(regions)

\* src/unnamed/part_002:130  jitter = (rng() - 0.5) * 0.1
Jitter(u) == Mul(Sub(u, Frac(1, 2)), Frac(1, 10))

\* the seeding with both divisions by the region's population itself
SeedAdoptionUnguarded(w0, targetSeedPop, pop0, u) ==
  LET w == OrElse(w0, Zero)
      regionPop == OrElse(pop0, Zero)
      expectedSeeds == Div(Mul(w, targetSeedPop), regionPop)
      frac == MathMin(One, Div(expectedSeeds, regionPop))
  IN clamp01(Add(frac, Jitter(u)))

\* src/unnamed/part_002:122-131  the seeded adoption of one region; u is rng()
SeedAdoption(w0, targetSeedPop, pop0, u) ==
  LET w == OrElse(w0, Zero)
      regionPop == OrElse(pop0, Zero)
      expectedSeeds == Div(Mul(w, targetSeedPop),
                           IF Gt(regionPop, Zero) THEN regionPop ELSE One)
      frac == MathMin(One, Div(expectedSeeds, OrElse(regionPop, One)))
  IN clamp01(Add(frac, Jitter(u)))

\* src/unnamed/part_002:115  initializeAdoption; draws[i] is the i-th rng() value
initializeAdoption(regions, seedFraction, spatialFocus, popByRegion, draws) ==
  LET pops == [r \in SeqToSet(regions) |-> PopOf(popByRegion, r)]
      totalPop == SumOver(regions, pops, Len(regions))
      targetSeedPop == Mul(totalPop, seedFraction)
      weights == computeSpatialFocusWeights(regions, spatialFocus, popByRegion)
      idx(r) == CHOOSE i \in 1..Len(regions) : regions[i] = r
  IN [r \in SeqToSet(regions) |->
        SeedAdoption(Get(weights, r), targetSeedPop, Get(popByRegion, r), draws[idx(r)])]

\* src/unnamed/part_002:174  initializeFear
initializeFear(regions, initialFearByRegion) ==
  [r \in SeqToSet(regions) |-> OrElse(Get(initialFearByRegion, r), Zero)]

\* src/unnamed/part_002:204  localContactFunction
localContactFunction(density, adoptionParams) ==
  LET baseContact == Dflt(adoptionParams.baseContact, Frac(1, 100))
      densityExponent == Dflt(adoptionParams.densityExponent, Frac(1, 2))
  IN Mul(baseContact, MathPow(Add(density, One), densityExponent))

RECURSIVE ImportedExposure(_, _, _, _)
\* src/unnamed/part_002:191-196 with reverseEdgesForRegion (209-219): the sum of
\* edge.weight * (A[edge.from] || 0) over the first n edges whose target is i
ImportedExposure(i, edges, A, n) ==
  IF n = 0 THEN Zero
  ELSE IF edges[n].to = i
    THEN Add(ImportedExposure(i, edges, A, n - 1),
             Mul(edges[n].weight, OrElse(Get(A, edges[n].from), Zero)))
  ELSE ImportedExposure(i, edges, A, n - 1)

\* src/unnamed/part_002:186-198  the exposure of region i; density is getDensity(i, 0)
ExposureOf(i, A, density, edges, signalStrength, adoptionParams) ==
  LET localWeight == Dflt(adoptionParams.localWeight, One)
      importedWeight == Dflt(adoptionParams.importedWeight, One)
      localContactRate == localContactFunction(density, adoptionParams)
      localExposure == Mul(Mul(localWeight, localContactRate), OrElse(Get(A, i), Zero))
      importedExposure == ImportedExposure(i, edges, A, Len(edges))
  IN Mul(signalStrength, Add(localExposure, Mul(importedWeight, importedExposure)))

\* the time at which computeExposure reads the density (src/unnamed/part_002:187)
DensityTime == 0

\* the density read one time slice later than asked
getDensityLater(provider, i, t) ==
  IF provider.kind = "async" THEN Promise ELSE provider.density[t + 1][i]

\* densityProvider.getDensity(i, t) as line 187 receives it: the density of a
\* synchronous provider, the pending Promise of an asynchronous one
getDensity(provider, i, t) ==
  IF provider.kind = "async" THEN Promise ELSE provider.density[t][i]

\* src/unnamed/part_002:182  computeExposure
computeExposure(regions, A, provider, edges, signalStrength, adoptionParams) ==
  [i \in SeqToSet(regions) |->
     ExposureOf(i, A, getDensity(provider, i, DensityTime), edges,
                signalStrength, adoptionParams)]

\* src/unnamed/part_002:221  adoptionIncrement
adoptionIncrement(a, f, e, adoptionParams) ==
  LET exposureScale == Dflt(adoptionParams.exposureScale, One)
      fearSensitivity == Dflt(adoptionParams.fearSensitivity, One)
      maxRate == Dflt(adoptionParams.maxRate, Frac(2, 10))
      effectiveExposure == Mul(e, exposureScale)
      fearFactor == Div(One, Add(One, Mul(fearSensitivity, f)))
      rawGrowth == Mul(Mul(effectiveExposure, fearFactor), Sub(One, a))
  IN MathMin(maxRate, rawGrowth)

\* src/unnamed/part_002:234  computeHarmSignal
computeHarmSignal(regionId, A, F, exposure, harmWeights) ==
  LET adoptionLevel == OrElse(Get(A, regionId), Zero)
      fearLevel == OrElse(Get(F, regionId), Zero)
      exp == OrElse(Get(exposure, regionId), Zero)
  IN Add(Add(Mul(OrElse(harmWeights.adoption, Zero), adoptionLevel),
             Mul(OrElse(harmWeights.fear, Zero), fearLevel)),
         Mul(OrElse(harmWeights.exposure, Zero), exp))

\* src/unnamed/part_002:248  fearIncrement
fearIncrement(f, e, dA, harmSignal, fearParams) ==
  LET kExposure == Dflt(fearParams.kExposure, Frac(1, 10))
      kGrowth == Dflt(fearParams.kGrowth, Frac(1, 2))
      kHarm == Dflt(fearParams.kHarm, One)
      decay == Dflt(fearParams.decay, Frac(5, 100))
      nonLinearSpike == Dflt(fearParams.nonLinearSpike, BoolT)
      spikeThreshold == Dflt(fearParams.spikeThreshold, Frac(2, 10))
      spikeGain == Dflt(fearParams.spikeGain, Fin(2 * Scale))
      driver0 == Add(Add(Mul(kExposure, e), Mul(kGrowth, MathMax(Zero, dA))),
                     Mul(kHarm, harmSignal))
      driver == IF nonLinearSpike = BoolT /\ Gt(driver0, spikeThreshold)
                  THEN Mul(driver0, spikeGain) ELSE driver0
  IN Sub(driver, Mul(decay, f))

\* the new fear kept inside [0, 1]
FloorFearCapped(x) == MathMin(One, MathMax(Zero, x))

\* src/unnamed/part_002:94  newF[r] = Math.max(0, f + dF)
FloorFear(x) == MathMax(Zero, x)

\* src/unnamed/part_002:84-95  one iteration of the update loop: the new adoption
\* and fear of region r, from the state objects A and F the loop reads
UpdateRegion(r, A, F, exposure, sim) ==
  LET a == A[r]
      f == F[r]
      e == OrElse(Get(exposure, r), Zero)
      dA == adoptionIncrement(a, f, e, sim.adoptionParams)
      harmSignal == computeHarmSignal(r, A, F, exposure, sim.harmWeights)
      dF == fearIncrement(f, e, dA, harmSignal, sim.fearParams)
  IN [a |-> clamp01(Add(a, dA)), f |-> FloorFear(Add(f, dF))]

(***************************************************************************)
(* Metrics (src/unnamed/part_002:270-364).  A history is a record of two   *)
(* sequences of snapshots [t, values].                                     *)
(***************************************************************************)
RECURSIVE PeakScan(_, _, _)
\* the running maximum kept by `if (v > peak) { peak = v; time = t }` over the first
\* n entries, starting from peak 0 and time null
PeakScan(vals, times, n) ==
  IF n = 0 THEN [peak |-> Zero, time |-> Null]
  ELSE LET p == PeakScan(vals, times, n - 1)
       IN IF Gt(vals[n], p.peak) THEN [peak |-> vals[n], time |-> times[n]] ELSE p

\* popTotal of computeSimulationMetrics (line 271)
PopTotal(regions, popByRegion) ==
  OrElse(SumOver(regions, [r \in SeqToSet(regions) |-> PopOf(popByRegion, r)],
                 Len(regions)), One)

\* lines 292-314: the population-weighted average of one snapshot's values
WeightedAverage(values, regions, popByRegion) ==
  Div(SumOver(regions,
              [r \in SeqToSet(regions) |->
                 Mul(OrElse(Get(values, r), Zero), PopOf(popByRegion, r))],
              Len(regions)),
      PopTotal(regions, popByRegion))

\* line 345: the region counts towards the population at risk
AtRisk(a, f, materialAdoption, criticalFear) ==
  Ge(a, materialAdoption) /\ Ge(f, criticalFear)

\* lines 339-349: shareAtRisk of one snapshot
ShareAtRisk(Avals, Fvals, regions, popByRegion, fearParams) ==
  LET criticalFear == Dflt(fearParams.criticalFear, Frac(7, 10))
      materialAdoption == Dflt(fearParams.materialAdoption, Frac(3, 10))
      risk == [r \in SeqToSet(regions) |->
                 IF AtRisk(OrElse(Get(Avals, r), Zero), OrElse(Get(Fvals, r), Zero),
                           materialAdoption, criticalFear)
                   THEN PopOf(popByRegion, r) ELSE Zero]
  IN Div(SumOver(regions, risk, Len(regions)), PopTotal(regions, popByRegion))

\* the share must exceed the critical share
ShareExceeds(share, criticalPopShare) == Gt(share, criticalPopShare)

\* line 350: the snapshot qualifies
ShareQualifies(share, criticalPopShare) == Ge(share, criticalPopShare)

RECURSIVE HarmfulScan(_, _, _, _, _)
\* lines 333-354: the scan from snapshot i on, stopping at the first that qualifies
HarmfulScan(history, regions, popByRegion, fearParams, i) ==
  IF i > Len(history.A) THEN FALSE
  ELSE IF ShareQualifies(
            ShareAtRisk(history.A[i].values, history.F[i].values, regions,
                        popByRegion, fearParams),
            Dflt(fearParams.criticalPopShare, Frac(1, 10)))
    THEN TRUE
  ELSE HarmfulScan(history, regions, popByRegion, fearParams, i + 1)

\* src/unnamed/part_002:270  computeSimulationMetrics
computeSimulationMetrics(history, regions, popByRegion, fearParams) ==
  LET n == Len(history.A)
      times == [i \in 1..n |-> history.A[i].t]
      avgA == [i \in 1..n |-> WeightedAverage(history.A[i].values, regions, popByRegion)]
      avgF == [i \in 1..n |-> WeightedAverage(history.F[i].values, regions, popByRegion)]
      gA == PeakScan(avgA, times, n)
      gF == PeakScan(avgF, times, n)
      regA(r) == PeakScan([i \in 1..n |-> OrElse(Get(history.A[i].values, r), Zero)],
                          times, n)
      regF(r) == PeakScan([i \in 1..n |-> OrElse(Get(history.F[i].values, r), Zero)],
                          times, n)
  IN [globalPeakAdoption |-> gA.peak,
      globalPeakFear |-> gF.peak,
      peakAdoptionTime |-> gA.time,
      peakFearTime |-> gF.time,
      perRegion |-> [r \in SeqToSet(regions) |->
                       [peakAdoption |-> regA(r).peak,
                        peakFear |-> regF(r).peak,
                        peakAdoptionTime |-> regA(r).time,
                        peakFearTime |-> regF(r).time]],
      harmfulCascadeOccurred |->
        HarmfulScan(history, regions, popByRegion, fearParams, 1)]

\* the step count rounded up instead of down
StepCountCeiling(theta) ==
  LET q == Div(theta.timeHorizon, theta.dt)
  IN IF Fin(FloorInt(q) * Scale) = q THEN FloorInt(q) ELSE FloorInt(q) + 1

\* src/unnamed/part_002:46  T = Math.floor(timeHorizon / dt)
StepCount(theta) == FloorInt(Div(theta.timeHorizon, theta.dt))

\* src/unnamed/part_002:62  t = step * dt
StepTime(step, theta) == Mul(Fin(step * Scale), theta.dt)

(***************************************************************************)
(* Bounds and input sets.                                                  *)
(***************************************************************************)
\* most regions listRegions() returns
MaxRegions == 2
\* largest step count T of a run
MaxSteps == 2

\* region ids; the first MaxRegions + 1 form the id universe, so that at least
\* one id that occurs in the inputs is never listed
Pool == <<"r1", "r2", "r3", "r4", "r5">>
Ids == {Pool[i] : i \in 1..(MaxRegions + 1)}
IndexOf(id) == CHOOSE i \in 1..Len(Pool) : Pool[i] = id
RegionLists == {SubSeq(Pool, 1, n) : n \in 0..MaxRegions}

\* option bags
DefaultAdoptionParams ==
  [localWeight |-> Undef, importedWeight |-> Undef, baseContact |-> Undef,
   densityExponent |-> Undef, exposureScale |-> Undef, fearSensitivity |-> Undef,
   maxRate |-> Undef]
DefaultFearParams ==
  [kExposure |-> Undef, kGrowth |-> Undef, kHarm |-> Undef, decay |-> Undef,
   nonLinearSpike |-> Undef, spikeThreshold |-> Undef, spikeGain |-> Undef,
   criticalFear |-> Undef, materialAdoption |-> Undef, criticalPopShare |-> Undef]
NoHarmWeights == [adoption |-> Undef, fear |-> Undef, exposure |-> Undef]

\* a configured bag: strong local contact, fear sensitivity -1, harm weights set
TunedAdoptionParams ==
  [localWeight |-> One, importedWeight |-> Fin(2 * Scale), baseContact |-> Frac(1, 2),
   densityExponent |-> One, exposureScale |-> One, fearSensitivity |-> Fin(-Scale),
   maxRate |-> Frac(1, 10)]
TunedFearParams ==
  [kExposure |-> Frac(1, 2), kGrowth |-> One, kHarm |-> One, decay |-> Frac(1, 2),
   nonLinearSpike |-> BoolF, spikeThreshold |-> Frac(1, 10), spikeGain |-> Fin(3 * Scale),
   criticalFear |-> Frac(1, 2), materialAdoption |-> Frac(1, 2),
   criticalPopShare |-> Frac(1, 2)]
TunedHarmWeights == [adoption |-> Frac(1, 2), fear |-> Undef, exposure |-> One]

\* a bag whose spike applies: low threshold, gain 3, fear weighted into the harm signal
SpikingFearParams ==
  [DefaultFearParams EXCEPT !.spikeThreshold = Frac(1, 100), !.spikeGain = Fin(3 * Scale)]
FearHarmWeights == [adoption |-> Undef, fear |-> Frac(1, 2), exposure |-> Undef]

ParamSets ==
  {[adoptionParams |-> DefaultAdoptionParams, fearParams |-> DefaultFearParams,
    harmWeights |-> NoHarmWeights],
   [adoptionParams |-> DefaultAdoptionParams, fearParams |-> SpikingFearParams,
    harmWeights |-> FearHarmWeights],
   [adoptionParams |-> TunedAdoptionParams, fearParams |-> TunedFearParams,
    harmWeights |-> TunedHarmWeights]}

\* per-id data, given by the id's position in Pool
PopProfiles ==
  {[id \in Ids |-> Fin(2 * Scale)],
   [id \in Ids |-> IF IndexOf(id) = 1 THEN Zero ELSE Fin(IndexOf(id) * Scale)]}
FearProfiles ==
  {[id \in Ids |-> Zero],
   [id \in Ids |-> One],
   [id \in Ids |-> IF IndexOf(id) = 1 THEN Fin(-(Scale \div 2)) ELSE Frac(8, 10)]}
DensityTables ==
  {[t \in 0..1 |-> [id \in Ids |-> Fin(3 * Scale * t)]],
   [t \in 0..1 |-> [id \in Ids |-> Fin(3 * Scale * ((IndexOf(id) + t) % 2))]]}

\* mobility graphs: no edge, or a ring over the whole id universe (weight 1/2)
\* with a second edge into the first id
RingEdges ==
  [i \in 1..(MaxRegions + 2) |->
     IF i <= MaxRegions + 1
       THEN [from |-> Pool[i], to |-> Pool[(i % (MaxRegions + 1)) + 1],
             weight |-> Frac(1, 2)]
       ELSE [from |-> Pool[2], to |-> Pool[1], weight |-> One]]
Graphs == {<<>>, RingEdges}

\* theta.timeHorizon and theta.dt; the last has T = floor(MaxSteps + 0.4)
TimeGrids ==
  {[timeHorizon |-> Fin(k * Scale), dt |-> One] : k \in 0..MaxSteps}
  \cup {[timeHorizon |-> Fin(MaxSteps * (Scale \div 2) + Scale \div 5),
         dt |-> Frac(1, 2)]}

\* spatial focus options
NoFocus == [type |-> "none", hasWeights |-> FALSE, weights |-> <<>>, centerIds |-> <<>>]
UniformFocus == [NoFocus EXCEPT !.type = "uniform"]
ExplicitFocus(w) == [NoFocus EXCEPT !.type = "explicit", !.hasWeights = TRUE, !.weights = w]
KernelFocus(c) == [NoFocus EXCEPT !.type = "kernel", !.centerIds = c]
FocusOptions ==
  {NoFocus, UniformFocus, [NoFocus EXCEPT !.type = "ring"],
   ExplicitFocus([id \in Ids |-> IF IndexOf(id) = 2 THEN Zero ELSE Fin(2 * Scale)]),
   KernelFocus(<<Pool[1]>>), KernelFocus(<<Pool[2], Pool[1]>>)}

\* simConfig.rngFactory: absent, or one of two seeded generators; RngValue is the
\* i-th value of the generator the factory returns for a seed, in [0, 1)
RngFactories == {"none", "lcg3", "lcg7"}
RngValue(factory, seed, i) ==
  Fin((((IF factory = "lcg3" THEN 3 ELSE 7) * i + 5 * seed) % 10) * (Scale \div 10))
\* values Math.random() may return
MathRandomValues == {Zero, Fin(Scale - 1)}

\* the arguments of one runCascadeSimulation call
MkInput(regions, density, edges, theta, sim) ==
  [provider |-> [regions |-> regions, density |-> density, kind |-> "sync"],
   edges |-> edges, theta |-> theta, sim |-> sim]

MkTheta(seedFraction, spatialFocus, signalStrength, tg, randomSeed) ==
  [seedFraction |-> seedFraction, spatialFocus |-> spatialFocus,
   signalStrength |-> signalStrength, timeHorizon |-> tg.timeHorizon, dt |-> tg.dt,
   randomSeed |-> randomSeed]

MkSim(ps, popByRegion, initialFearByRegion, rngFactory) ==
  [fearParams |-> ps.fearParams, adoptionParams |-> ps.adoptionParams,
   harmWeights |-> ps.harmWeights, popByRegion |-> popByRegion,
   initialFearByRegion |-> initialFearByRegion, rngFactory |-> rngFactory]

FirstPop == CHOOSE f \in PopProfiles : \A id \in Ids : f[id] = Fin(2 * Scale)
FirstDensity == CHOOSE d \in DensityTables : \A id \in Ids : d[0][id] = Zero
OneStep == [timeHorizon |-> One, dt |-> One]

\* runs that exercise the dynamics: horizon, signal, parameters, fear, graph
DynamicsInputs ==
  {MkInput(regions, density, edges,
           MkTheta(seedFraction, UniformFocus, signalStrength, tg, Fin(0)),
           MkSim(ps, FirstPop, fear, "lcg3")) :
     regions \in RegionLists, density \in DensityTables, edges \in Graphs,
     seedFraction \in {Zero, Frac(1, 2), One}, signalStrength \in {Zero, One},
     tg \in TimeGrids, ps \in ParamSets, fear \in FearProfiles}

\* runs that exercise the seeding: focus, populations, random source, seed
SeedingInputs ==
  {MkInput(regions, FirstDensity, RingEdges,
           MkTheta(seedFraction, focus, One, OneStep, randomSeed),
           MkSim(CHOOSE ps \in ParamSets : ps.harmWeights = NoHarmWeights,
                 pop, [id \in Ids |-> One], rngFactory)) :
     regions \in RegionLists, seedFraction \in {Zero, Frac(1, 2), One},
     focus \in FocusOptions, randomSeed \in {Undef, Fin(Scale)},
     pop \in PopProfiles, rngFactory \in RngFactories \ {"none"}}

\* runs without an rngFactory
UnseededInputs ==
  {[i EXCEPT !.sim.rngFactory = "none"] :
     i \in {j \in SeedingInputs : /\ j.theta.spatialFocus = UniformFocus
                                  /\ j.theta.seedFraction = Frac(1, 2)
                                  /\ j.sim.rngFactory = "lcg3"}}

Inputs == DynamicsInputs \cup SeedingInputs \cup UnseededInputs

\* the ids of the universe that listRegions() does not return
Unlisted(in) == Ids \ SeqToSet(in.provider.regions)

\* the same call with the data of unlisted ids changed in one place
Perturbations == {"none", "pop", "fear", "edge", "weight", "center"}
Perturb(in, kind) ==
  LET U == Unlisted(in)
      u == CHOOSE x \in U : TRUE
      bump(f) == [id \in DOMAIN f |-> IF id \in U THEN Add(f[id], One) ELSE f[id]]
      first == IF in.provider.regions = <<>> THEN u ELSE in.provider.regions[1]
  IN CASE kind = "pop" ->
            [in EXCEPT !.sim.popByRegion = bump(in.sim.popByRegion)]
       [] kind = "fear" ->
            [in EXCEPT !.sim.initialFearByRegion = bump(in.sim.initialFearByRegion)]
       [] kind = "edge" ->
            [in EXCEPT !.edges =
               <<[from |-> u, to |-> first, weight |-> One],
                 [from |-> first, to |-> u, weight |-> One]>> \o in.edges]
       [] kind = "weight" /\ in.theta.spatialFocus.hasWeights ->
            [in EXCEPT !.theta.spatialFocus.weights = bump(in.theta.spatialFocus.weights)]
       [] kind = "center" /\ in.theta.spatialFocus.type = "kernel" ->
            [in EXCEPT !.theta.spatialFocus.centerIds =
               Append(in.theta.spatialFocus.centerIds, u)]
       [] OTHER -> in

\* the arguments of two calls: the same twice, or the second with unlisted data changed
CallPairs ==
  {<<i, i>> : i \in Inputs}
  \cup {<<i, Perturb(i, kind)>> : i \in SeedingInputs, kind \in Perturbations}
  \cup {<<i, Perturb(i, "edge")>> :
          i \in {d \in DynamicsInputs : d.theta.signalStrength = One /\ d.edges = <<>>}}

(***************************************************************************)
(* A caller that calls runCascadeSimulation twice, the second time with    *)
(* the same arguments or with the data of unlisted ids changed.  The run   *)
(* itself is src/unnamed/part_002:25-111, one action per block.            *)
(***************************************************************************)
VARIABLES
  inputs,     \* the arguments of call 1 and call 2
  run,        \* the call in progress: 1 or 2
  pc,         \* position in the call
  A, F,       \* the state objects of the call (lines 49-50)
  step,       \* the loop counter (line 61)
  history,    \* line 51
  exposure,   \* line 71
  newA, newF, \* lines 81-82
  next,       \* position of the update loop (line 84) in regions
  results,    \* what the finished calls returned: [history, metrics]
  \* buildResponseSurface (src/unnamed/part_006:17-63)
  grid,        \* its arguments: paramGrid and simConfig
  surface,     \* line 25
  cell,        \* the grid point of the three nested loops, counted from 1
  runK,        \* k of line 39
  cellResults, \* line 38
  bpc,         \* position in buildResponseSurface; "off" when it is not called
  calc,        \* a call of computeSpatialFocusWeights: its arguments and result
  thr          \* calls of deriveRegulatoryThresholds: arguments, objects, results

svars == <<inputs, run, pc, A, F, step, history, exposure, newA, newF, next, results>>
bvars == <<grid, surface, cell, runK, cellResults, bpc>>
pvars == <<calc, thr>>
vars == <<svars, bvars, pvars>>

in == inputs[run]
regions == in.provider.regions
Empty == <<>>

Init ==
  /\ inputs \in CallPairs
  /\ run = 1
  /\ pc = "begin"
  /\ A = Empty /\ F = Empty /\ exposure = Empty /\ newA = Empty /\ newF = Empty
  /\ step = 0 /\ next = 1
  /\ history = [A |-> <<>>, F |-> <<>>]
  /\ results = <<>>
  /\ grid = Empty /\ surface = <<>> /\ cell = 1 /\ runK = 0 /\ cellResults = <<>>
  /\ bpc = "off"
  /\ calc = Empty /\ thr = Empty

\* one generator shared by the calls: the second call continues the stream
SharedDraws(sim, theta, n) ==
  [i \in 1..n |-> RngValue(sim.rngFactory,
                           FloorInt(OrElse(theta.randomSeed, Zero)), i + (run - 1) * n)]

\* line 43: the generator the run draws its jitter from; draws[i] is its i-th value
SeededDraws(sim, theta, n) ==
  [i \in 1..n |-> RngValue(sim.rngFactory,
                           FloorInt(OrElse(theta.randomSeed, Zero)), i)]

\* a call of a provider method can return: the base class DensityProvider
\* (src/unnamed/part_004:5-31) throws from listRegions and getDensity, a provider
\* that reads a remote source returns or throws
MayReturn(provider) == provider.kind # "abstract"
MayThrow(provider) == provider.kind \in {"abstract", "remote"}

\* the run resumes at the metrics after a failure of the provider
OnProviderFailureResume(position) == "metrics"

\* where the run is after the provider threw at position: no try encloses the
\* calls of lines 45 and 187, the exception leaves runCascadeSimulation
OnProviderFailure(position) == "thrown"

\* line 45: listRegions() throws
BeginThrows ==
  /\ pc = "begin"
  /\ MayThrow(in.provider)
  /\ pc' = OnProviderFailure(pc)
  /\ UNCHANGED <<inputs, run, A, F, step, history, exposure, newA, newF, next, results>>
  /\ UNCHANGED <<bvars, pvars>>

\* lines 43-58
Begin ==
  /\ pc = "begin"
  /\ MayReturn(in.provider)
  /\ \E draws \in [1..Len(regions) -> MathRandomValues] :
       LET d == IF in.sim.rngFactory = "none" THEN draws
                ELSE SeededDraws(in.sim, in.theta, Len(regions))
       IN A' = initializeAdoption(regions, in.theta.seedFraction,
                                  in.theta.spatialFocus, in.sim.popByRegion, d)
  /\ F' = initializeFear(regions, in.sim.initialFearByRegion)
  /\ history' = [A |-> <<>>, F |-> <<>>]
  /\ step' = 0
  /\ pc' = "snapshot"
  /\ UNCHANGED <<inputs, run, exposure, newA, newF, next, results>>
  /\ UNCHANGED <<bvars, pvars>>

\* lines 61-68: the loop test, the snapshot and the break
Snapshot ==
  /\ pc = "snapshot"
  /\ step <= StepCount(in.theta)
  /\ history' = [A |-> Append(history.A, [t |-> StepTime(step, in.theta), values |-> A]),
                 F |-> Append(history.F, [t |-> StepTime(step, in.theta), values |-> F])]
  /\ pc' = IF step = StepCount(in.theta) THEN "metrics" ELSE "exposure"
  /\ UNCHANGED <<inputs, run, A, F, step, exposure, newA, newF, next, results>>
  /\ UNCHANGED <<bvars, pvars>>

\* line 187: getDensity() throws for some region
ExposureThrows ==
  /\ pc = "exposure"
  /\ Len(regions) > 0
  /\ MayThrow(in.provider)
  /\ pc' = OnProviderFailure(pc)
  /\ UNCHANGED <<inputs, run, A, F, step, history, exposure, newA, newF, next, results>>
  /\ UNCHANGED <<bvars, pvars>>

\* lines 71-82
Exposure ==
  /\ pc = "exposure"
  /\ Len(regions) = 0 \/ MayReturn(in.provider)
  /\ exposure' = computeExposure(regions, A, in.provider, in.edges,
                                 in.theta.signalStrength, in.sim.adoptionParams)
  /\ newA' = Empty /\ newF' = Empty
  /\ next' = 1
  /\ pc' = "update"
  /\ UNCHANGED <<inputs, run, A, F, step, history, results>>
  /\ UNCHANGED <<bvars, pvars>>

\* the new values written into the state objects as well
StoreRegionInPlace(bufs, r, upd) ==
  [bufs EXCEPT !.newA = (r :> upd.a) @@ bufs.newA, !.newF = (r :> upd.f) @@ bufs.newF,
               !.A = (r :> upd.a) @@ bufs.A, !.F = (r :> upd.f) @@ bufs.F]

\* lines 90 and 94: where the new values of region r are stored
StoreRegion(bufs, r, upd) ==
  [bufs EXCEPT !.newA = (r :> upd.a) @@ bufs.newA, !.newF = (r :> upd.f) @@ bufs.newF]

\* lines 84-95: one iteration of the update loop
UpdateStep ==
  /\ pc = "update"
  /\ next <= Len(regions)
  /\ LET r == regions[next]
         bufs == StoreRegion([A |-> A, F |-> F, newA |-> newA, newF |-> newF], r,
                             UpdateRegion(r, A, F, exposure, in.sim))
     IN /\ A' = bufs.A /\ F' = bufs.F /\ newA' = bufs.newA /\ newF' = bufs.newF
  /\ next' = next + 1
  /\ UNCHANGED <<inputs, run, pc, step, history, exposure, results>>
  /\ UNCHANGED <<bvars, pvars>>

\* the snapshots holding the state object itself: they show what is stored into it
SnapshotsShared(snapshots, stored) ==
  [i \in 1..Len(snapshots) |-> [snapshots[i] EXCEPT !.values = stored]]

\* lines 65-66: a snapshot holds a copy ({ ...A }) of the state object; the stored
\* snapshots after new values are stored into the state object
SnapshotsCopied(snapshots, stored) == snapshots

\* lines 98-101, and step++ of line 61
Commit ==
  /\ pc = "update"
  /\ next > Len(regions)
  /\ A' = [r \in SeqToSet(regions) |-> newA[r]] @@ A
  /\ F' = [r \in SeqToSet(regions) |-> newF[r]] @@ F
  /\ history' = [A |-> SnapshotsCopied(history.A, A'),
                 F |-> SnapshotsCopied(history.F, F')]
  /\ step' = step + 1
  /\ pc' = "snapshot"
  /\ UNCHANGED <<inputs, run, exposure, newA, newF, next, results>>
  /\ UNCHANGED <<bvars, pvars>>

\* lines 105-110
Finish ==
  /\ pc = "metrics"
  /\ results' = Append(results,
       [history |-> history,
        metrics |-> computeSimulationMetrics(history, regions, in.sim.popByRegion,
                                             in.sim.fearParams)])
  /\ pc' = "done"
  /\ UNCHANGED <<inputs, run, A, F, step, history, exposure, newA, newF, next>>
  /\ UNCHANGED <<bvars, pvars>>

\* the caller makes its second call
SecondCall ==
  /\ bpc = "off"
  /\ pc = "done"
  /\ run = 1
  /\ run' = 2
  /\ pc' = "begin"
  /\ UNCHANGED <<inputs, A, F, step, history, exposure, newA, newF, next, results>>
  /\ UNCHANGED <<bvars, pvars>>

Next == Begin \/ Snapshot \/ Exposure \/ UpdateStep \/ Commit \/ Finish \/ SecondCall

Spec == Init /\ [][Next]_vars

(***************************************************************************)
(* A caller that makes the same call twice, first with a synchronous       *)
(* density provider and then with an asynchronous one that delivers the    *)
(* same densities.                                                         *)
(***************************************************************************)
AsyncPairs == {<<i, [i EXCEPT !.provider.kind = "async"]>> : i \in DynamicsInputs}

InitAsync ==
  /\ inputs \in AsyncPairs
  /\ run = 1
  /\ pc = "begin"
  /\ A = Empty /\ F = Empty /\ exposure = Empty /\ newA = Empty /\ newF = Empty
  /\ step = 0 /\ next = 1
  /\ history = [A |-> <<>>, F |-> <<>>]
  /\ results = <<>>
  /\ grid = Empty /\ surface = <<>> /\ cell = 1 /\ runK = 0 /\ cellResults = <<>>
  /\ bpc = "off"
  /\ calc = Empty /\ thr = Empty

SpecAsync == InitAsync /\ [][Next]_vars

(***************************************************************************)
(* A caller that makes the same call twice, the second time over a         *)
(* provider that holds other densities for every time but 0.               *)
(***************************************************************************)
LaterDensitiesChanged(density) ==
  [t \in DOMAIN density |->
     IF t = 0 THEN density[t] ELSE [id \in DOMAIN density[t] |-> Add(density[t][id], One)]]

DensityPairs ==
  {<<i, [i EXCEPT !.provider.density = LaterDensitiesChanged(i.provider.density)]>> :
     i \in DynamicsInputs}

InitDensity ==
  /\ inputs \in DensityPairs
  /\ run = 1
  /\ pc = "begin"
  /\ A = Empty /\ F = Empty /\ exposure = Empty /\ newA = Empty /\ newF = Empty
  /\ step = 0 /\ next = 1
  /\ history = [A |-> <<>>, F |-> <<>>]
  /\ results = <<>>
  /\ grid = Empty /\ surface = <<>> /\ cell = 1 /\ runK = 0 /\ cellResults = <<>>
  /\ bpc = "off"
  /\ calc = Empty /\ thr = Empty

SpecDensity == InitDensity /\ [][Next]_vars

(***************************************************************************)
(* buildResponseSurface (src/unnamed/part_006).  Its calls of              *)
(* runCascadeSimulation are the run above; the caller is suspended while   *)
(* the call runs.                                                          *)
(***************************************************************************)
\* longest list of a parameter grid
MaxGrid == 2
\* largest runsPerPoint
MaxRuns == 2

SeedFractionLists == {SubSeq(<<Frac(1, 2), One, Zero>>, 1, n) : n \in 0..MaxGrid}
SignalStrengthLists == {SubSeq(<<One, Zero, Frac(1, 2)>>, 1, n) : n \in 0..MaxGrid}
FocusLists ==
  {SubSeq(<<KernelFocus(<<Pool[2], Pool[1]>>), UniformFocus, NoFocus>>, 1, n) :
     n \in 0..MaxGrid}

\* baseSimConfig with its timeHorizon and dt, the provider and the graph
BaseConfig(listed, ps, rngFactory) ==
  [provider |-> [regions |-> listed, density |-> FirstDensity, kind |-> "sync"],
   edges |-> RingEdges,
   sim |-> MkSim(ps, FirstPop, [id \in Ids |-> Frac(8, 10)], rngFactory),
   timeHorizon |-> One, dt |-> One]

\* grids run with a seeded generator, single-point grids run with Math.random,
\* and grids run over a provider that fails
SurfaceArguments ==
  {[seedFractions |-> sf, signalStrengths |-> ss, spatialFocusOptions |-> fo,
    runsPerPoint |-> n, base |-> BaseConfig(SubSeq(Pool, 1, 2), ps, "lcg7")] :
     sf \in SeedFractionLists, ss \in SignalStrengthLists, fo \in FocusLists,
     n \in 0..MaxRuns, ps \in ParamSets}
  \cup
  {[seedFractions |-> <<Frac(1, 2)>>, signalStrengths |-> <<One>>,
    spatialFocusOptions |-> <<UniformFocus>>,
    runsPerPoint |-> n, base |-> BaseConfig(SubSeq(Pool, 1, 1), ps, "none")] :
     n \in 1..MaxRuns, ps \in ParamSets}
  \cup
  {[seedFractions |-> sf, signalStrengths |-> <<One>>,
    spatialFocusOptions |-> <<UniformFocus>>, runsPerPoint |-> n,
    base |-> [BaseConfig(SubSeq(Pool, 1, 1), ps, "lcg7") EXCEPT !.provider.kind = kind]] :
     sf \in SeedFractionLists, n \in 0..MaxRuns, ps \in ParamSets,
     kind \in {"abstract", "remote"}}

\* the number of grid points the three nested loops visit
GridSize(g) ==
  Len(g.seedFractions) * Len(g.signalStrengths) * Len(g.spatialFocusOptions)

\* the c-th grid point with the focus varying slowest and the seed fraction fastest
GridPointFocusOutermost(g, c) ==
  LET nS == Len(g.seedFractions)
      nG == Len(g.signalStrengths)
  IN [seedFraction |-> g.seedFractions[((c - 1) % nS) + 1],
      signalStrength |-> g.signalStrengths[(((c - 1) \div nS) % nG) + 1],
      spatialFocus |-> g.spatialFocusOptions[((c - 1) \div (nS * nG)) + 1]]

\* lines 27-29: the c-th grid point the loops visit: seedFraction outermost, then
\* signalStrength, then spatialFocus
GridPoint(g, c) ==
  LET nG == Len(g.signalStrengths)
      nF == Len(g.spatialFocusOptions)
  IN [seedFraction |-> g.seedFractions[((c - 1) \div (nG * nF)) + 1],
      signalStrength |-> g.signalStrengths[(((c - 1) \div nF) % nG) + 1],
      spatialFocus |-> g.spatialFocusOptions[((c - 1) % nF) + 1]]

\* every run of a cell seeded alike
RunSeedFirst(j) == Fin(0)

\* line 40: randomSeed of run j
RunSeed(j) == Fin(j * Scale)

\* lines 30-46: the arguments of run j of grid point gp
RunArguments(g, gp, j) ==
  [MkInput(g.base.provider.regions, g.base.provider.density, g.base.edges,
           MkTheta(gp.seedFraction, gp.spatialFocus, gp.signalStrength,
                   [timeHorizon |-> g.base.timeHorizon, dt |-> g.base.dt], RunSeed(j)),
           g.base.sim)
     EXCEPT !.provider = g.base.provider]

\* the runs of a cell taken as complete one run early
RunsDoneEarly(j, runsPerPoint) == j + 1 >= runsPerPoint

\* line 39: the loop over the runs of a cell has ended
RunsDone(j, runsPerPoint) == ~(j < runsPerPoint)

RECURSIVE SumPeaks(_, _, _)
\* line 68: arr.reduce((s, m) => s + (m[key] || 0), 0) over the first n entries
SumPeaks(arr, key, n) ==
  IF n = 0 THEN Zero ELSE Add(SumPeaks(arr, key, n - 1), OrElse(arr[n][key], Zero))

\* the aggregates divided by the run count itself
aggregateMetricsUnguarded(metricsArray) ==
  LET n == Len(metricsArray)
      harmful == {i \in 1..Len(metricsArray) : metricsArray[i].harmfulCascadeOccurred}
  IN [meanGlobalPeakAdoption |->
        Div(SumPeaks(metricsArray, "globalPeakAdoption", Len(metricsArray)),
            Fin(n * Scale)),
      meanGlobalPeakFear |->
        Div(SumPeaks(metricsArray, "globalPeakFear", Len(metricsArray)), Fin(n * Scale)),
      probabilityHarmful |-> Div(Fin(Cardinality(harmful) * Scale), Fin(n * Scale)),
      raw |-> metricsArray]

\* src/unnamed/part_006:65  aggregateMetrics
aggregateMetrics(metricsArray) ==
  LET n == IF Len(metricsArray) = 0 THEN 1 ELSE Len(metricsArray)
      harmful == {i \in 1..Len(metricsArray) : metricsArray[i].harmfulCascadeOccurred}
  IN [meanGlobalPeakAdoption |->
        Div(SumPeaks(metricsArray, "globalPeakAdoption", Len(metricsArray)),
            Fin(n * Scale)),
      meanGlobalPeakFear |->
        Div(SumPeaks(metricsArray, "globalPeakFear", Len(metricsArray)), Fin(n * Scale)),
      probabilityHarmful |-> Div(Fin(Cardinality(harmful) * Scale), Fin(n * Scale)),
      raw |-> metricsArray]

InitSurface ==
  /\ grid \in SurfaceArguments
  /\ surface = <<>> /\ cell = 1 /\ runK = 0 /\ cellResults = <<>>
  /\ bpc = "cell"
  /\ inputs = Empty /\ run = 0 /\ pc = "idle"
  /\ A = Empty /\ F = Empty /\ exposure = Empty /\ newA = Empty /\ newF = Empty
  /\ step = 0 /\ next = 1
  /\ history = [A |-> <<>>, F |-> <<>>]
  /\ results = <<>>
  /\ calc = Empty /\ thr = Empty

\* the caller hands arguments to runCascadeSimulation
Call(args) ==
  /\ inputs' = (run + 1) :> args
  /\ run' = run + 1
  /\ pc' = "begin"
  /\ results' = <<>>
  /\ UNCHANGED <<A, F, step, history, exposure, newA, newF, next>>

\* lines 27-38: the next grid point begins
CellBegin ==
  /\ bpc = "cell"
  /\ cell <= GridSize(grid)
  /\ cellResults' = <<>>
  /\ runK' = 0
  /\ bpc' = "runs"
  /\ UNCHANGED <<svars, grid, surface, cell>>
  /\ UNCHANGED pvars

\* lines 39-46: run k is called
RunCall ==
  /\ bpc = "runs"
  /\ ~RunsDone(runK, grid.runsPerPoint)
  /\ Call(RunArguments(grid, GridPoint(grid, cell), runK))
  /\ bpc' = "calling"
  /\ UNCHANGED <<grid, surface, cell, runK, cellResults>>
  /\ UNCHANGED pvars

\* line 47 and k++: the call has returned
RunReturn ==
  /\ bpc = "calling"
  /\ pc = "done"
  /\ cellResults' = Append(cellResults, Last(results).metrics)
  /\ runK' = runK + 1
  /\ bpc' = "runs"
  /\ pc' = "idle"
  /\ UNCHANGED <<inputs, run, A, F, step, history, exposure, newA, newF, next, results>>
  /\ UNCHANGED <<grid, surface, cell>>
  /\ UNCHANGED pvars

\* lines 41-46: the call threw; nothing catches it, buildResponseSurface ends
\* with the exception and its surface is not returned
RunFails ==
  /\ bpc = "calling"
  /\ pc = "thrown"
  /\ bpc' = "failed"
  /\ UNCHANGED <<svars, grid, surface, cell, runK, cellResults>>
  /\ UNCHANGED pvars

\* lines 50-57: the cell is aggregated and appended
CellEnd ==
  /\ bpc = "runs"
  /\ RunsDone(runK, grid.runsPerPoint)
  /\ surface' = Append(surface,
       [seedFraction |-> GridPoint(grid, cell).seedFraction,
        signalStrength |-> GridPoint(grid, cell).signalStrength,
        spatialFocus |-> GridPoint(grid, cell).spatialFocus,
        stats |-> aggregateMetrics(cellResults)])
  /\ cell' = cell + 1
  /\ bpc' = "cell"
  /\ UNCHANGED <<svars, grid, runK, cellResults>>
  /\ UNCHANGED pvars

\* line 62
Return ==
  /\ bpc = "cell"
  /\ cell > GridSize(grid)
  /\ bpc' = "returned"
  /\ UNCHANGED <<svars, grid, surface, cell, runK, cellResults>>
  /\ UNCHANGED pvars

\* afterwards the caller repeats one run of the surface on its own
Standalone ==
  /\ bpc = "returned"
  /\ \E c \in 1..Len(surface), j \in 0..(grid.runsPerPoint - 1) :
       /\ Call(RunArguments(grid, GridPoint(grid, c), j))
       /\ cell' = c /\ runK' = j
  /\ bpc' = "standalone"
  /\ UNCHANGED <<grid, surface, cellResults>>
  /\ UNCHANGED pvars

NextSurface ==
  \/ CellBegin \/ RunCall \/ RunReturn \/ RunFails \/ CellEnd \/ Return \/ Standalone
  \/ Begin \/ Snapshot \/ Exposure \/ UpdateStep \/ Commit \/ Finish
  \/ BeginThrows \/ ExposureThrows

SpecSurface == InitSurface /\ [][NextSurface]_vars

(***************************************************************************)
(* deriveRegulatoryThresholds (src/unnamed/part_003).  A surface is a      *)
(* sequence of cells as buildResponseSurface pushes them; a cell's         *)
(* spatialFocus is a reference into objs, the focus objects of the         *)
(* parameter grid, which several cells may share.  A string is the         *)
(* sequence of its pieces: "kernel:r1,r2" is <<"kernel:", "r1", "r2">>.    *)
(***************************************************************************)
\* longest surface
MaxCells == 2

RECURSIVE InsertId(_, _, _)
\* id put into the sorted sequence s, looking at its first n elements; the ids of
\* Pool compare as strings in the order of Pool
InsertId(s, id, n) ==
  IF n = 0 THEN <<id>> \o s
  ELSE IF IndexOf(s[n]) <= IndexOf(id)
    THEN SubSeq(s, 1, n) \o <<id>> \o SubSeq(s, n + 1, Len(s))
  ELSE InsertId(s, id, n - 1)

RECURSIVE SortIds(_, _)
\* the first n elements of ids sorted as Array.prototype.sort() sorts strings
SortIds(ids, n) ==
  IF n = 0 THEN <<>>
  ELSE LET s == SortIds(ids, n - 1) IN InsertId(s, ids[n], Len(s))

\* line 66: (spatialFocus.centerIds || []).sort().join(",")
JoinSorted(centerIds) == SortIds(centerIds, Len(centerIds))

\* src/unnamed/part_003:63  spatialFocusKey
spatialFocusKey(spatialFocus) ==
  IF spatialFocus.type = "none" THEN <<"uniform">>
  ELSE IF spatialFocus.type = "kernel" THEN <<"kernel:">> \o JoinSorted(spatialFocus.centerIds)
  ELSE IF spatialFocus.type = "explicit" THEN <<"explicit">>
  ELSE IF spatialFocus.type = "" THEN <<"other">>
  ELSE <<spatialFocus.type>>

RECURSIVE maxBy(_, _, _)
\* src/unnamed/part_003:74  maxBy with fn = (c) => c[key], over the first n elements
maxBy(arr, key, n) ==
  IF n = 0 THEN [best |-> Null, bestVal |-> NInf]
  ELSE LET b == maxBy(arr, key, n - 1)
       IN IF Gt(arr[n][key], b.bestVal)
            THEN [best |-> arr[n], bestVal |-> arr[n][key]]
            ELSE b

\* both maxima read from the cell with the largest seed fraction
MaxOfBestSeed(cells, key) ==
  LET b == maxBy(cells, "seedFraction", Len(cells))
  IN IF b.best = Null THEN Zero ELSE b.best[key]

\* lines 46-49: maxBy(cells, (c) => c[key])?.[key] ?? 0
MaxOf(cells, key) ==
  LET b == maxBy(cells, key, Len(cells))
  IN IF b.best = Null \/ b.best[key] = Undef THEN Zero ELSE b.best[key]

\* a cell is safe when either comparison holds
SafeCellEither(c, riskConstraints) ==
  \/ Le(c.stats.probabilityHarmful, riskConstraints.maxHarmProbability)
  \/ Le(c.stats.meanGlobalPeakFear, Dflt(riskConstraints.maxMeanGlobalFear, One))

\* the filter with maxMeanGlobalFear taken as a floor
SafeCellFearFloor(c, riskConstraints) ==
  /\ Le(c.stats.probabilityHarmful, riskConstraints.maxHarmProbability)
  /\ Ge(c.stats.meanGlobalPeakFear, Dflt(riskConstraints.maxMeanGlobalFear, One))

\* lines 11-23: the filter of safeCells, maxMeanGlobalFear = 1.0 by default
SafeCell(c, riskConstraints) ==
  /\ Le(c.stats.probabilityHarmful, riskConstraints.maxHarmProbability)
  /\ Le(c.stats.meanGlobalPeakFear, Dflt(riskConstraints.maxMeanGlobalFear, One))

\* the safe cells taken as missing when at most one is safe
NoSafeCellsBelowTwo(safeCells) == Len(safeCells) <= 1

\* line 25
NoSafeCells(safeCells) == Len(safeCells) = 0

RECURSIVE GroupByFocusKey(_, _, _)
\* lines 34-41: byFocusKey after the first n safe cells, its keys in insertion order
GroupByFocusKey(safeCells, objs, n) ==
  IF n = 0 THEN <<>>
  ELSE LET g == GroupByFocusKey(safeCells, objs, n - 1)
           key == spatialFocusKey(objs[safeCells[n].spatialFocus])
           hit == {i \in 1..Len(g) : g[i].key = key}
       IN IF hit = {} THEN Append(g, [key |-> key, cells |-> <<safeCells[n]>>])
          ELSE [g EXCEPT ![CHOOSE i \in hit : TRUE].cells = Append(@, safeCells[n])]

\* src/unnamed/part_003:10  deriveRegulatoryThresholds: what it returns
deriveRegulatoryThresholds(surf, objs, riskConstraints) ==
  LET safeCells == SelectSeq(surf, LAMBDA c : SafeCell(c, riskConstraints))
      byFocusKey == GroupByFocusKey(safeCells, objs, Len(safeCells))
  IN IF NoSafeCells(safeCells)
       THEN [safe |-> FALSE,
             message |-> "No parameter region satisfies risk constraints.",
             thresholds |-> Null]
       ELSE [safe |-> TRUE,
             thresholds |->
               [i \in 1..Len(byFocusKey) |->
                  [spatialFocusKey |-> byFocusKey[i].key,
                   maxSafeSeedFraction |-> MaxOf(byFocusKey[i].cells, "seedFraction"),
                   maxSafeSignalStrength |-> MaxOf(byFocusKey[i].cells, "signalStrength"),
                   riskConstraints |-> riskConstraints]]]

\* line 66: sort() reorders the centerIds array of every kernel focus a safe cell
\* refers to, in place
SortedInPlace(surf, objs, riskConstraints) ==
  LET used == {surf[i].spatialFocus :
                 i \in {j \in 1..Len(surf) : SafeCell(surf[j], riskConstraints)}}
  IN [o \in 1..Len(objs) |->
        IF o \in used /\ objs[o].type = "kernel"
          THEN [objs[o] EXCEPT !.centerIds = JoinSorted(@)]
          ELSE objs[o]]

\* the focus objects of a parameter grid
FocusHeaps ==
  {<<NoFocus, UniformFocus, [NoFocus EXCEPT !.type = "ring"]>>,
   <<KernelFocus(<<Pool[2], Pool[1]>>), KernelFocus(<<Pool[1], Pool[2]>>),
     KernelFocus(<<Pool[1], Pool[2], Pool[1]>>)>>,
   <<ExplicitFocus([id \in Ids |-> One]), [NoFocus EXCEPT !.type = ""],
     KernelFocus(<<>>)>>}

\* seedFraction, signalStrength and stats of a cell
CellVariants ==
  {[seedFraction |-> Frac(1, 2), signalStrength |-> One,
    stats |-> [probabilityHarmful |-> Zero, meanGlobalPeakFear |-> Frac(1, 2)]],
   [seedFraction |-> One, signalStrength |-> Zero,
    stats |-> [probabilityHarmful |-> Frac(1, 2), meanGlobalPeakFear |-> One]],
   [seedFraction |-> One, signalStrength |-> One,
    stats |-> [probabilityHarmful |-> One, meanGlobalPeakFear |-> Frac(3, 2)]]}

MenuCells ==
  {[seedFraction |-> v.seedFraction, signalStrength |-> v.signalStrength,
    spatialFocus |-> o, stats |-> v.stats] : v \in CellVariants, o \in 1..3}

Surfaces == UNION {[1..n -> MenuCells] : n \in 0..MaxCells}

RiskConstraintSets ==
  {[maxHarmProbability |-> Frac(1, 2), maxMeanGlobalFear |-> Undef],
   [maxHarmProbability |-> Frac(1, 2), maxMeanGlobalFear |-> Frac(1, 2)],
   [maxHarmProbability |-> Frac(1, 2), maxMeanGlobalFear |-> Fin(2 * Scale)],
   [maxHarmProbability |-> Undef, maxMeanGlobalFear |-> One],
   [maxHarmProbability |-> One, maxMeanGlobalFear |-> Undef]}

\* surf without the cells at the positions in drop
Without(surf, drop) ==
  LET keep == {i \in 1..Len(surf) : i \notin drop}
      RECURSIVE Take(_)
      Take(n) == IF n = 0 THEN <<>>
                 ELSE IF n \in keep THEN Append(Take(n - 1), surf[n]) ELSE Take(n - 1)
  IN Take(Len(surf))

\* a caller that derives the thresholds of a surface and then of the same surface
\* with some cells removed
InitThresholds ==
  /\ \E surf \in Surfaces, objs \in FocusHeaps, rc \in RiskConstraintSets :
       \E drop \in SUBSET (1..Len(surf)) :
         thr = [surface |-> surf, objs |-> objs, riskConstraints |-> rc, drop |-> drop,
                given |-> objs, returned |-> <<>>]
  /\ calc = Empty
  /\ inputs = Empty /\ run = 0 /\ pc = "idle"
  /\ A = Empty /\ F = Empty /\ exposure = Empty /\ newA = Empty /\ newF = Empty
  /\ step = 0 /\ next = 1
  /\ history = [A |-> <<>>, F |-> <<>>]
  /\ results = <<>>
  /\ grid = Empty /\ surface = <<>> /\ cell = 1 /\ runK = 0 /\ cellResults = <<>>
  /\ bpc = "off"

\* one call of deriveRegulatoryThresholds(surf, riskConstraints), from entry to return
DeriveUnder(surf, riskConstraints) ==
  thr' = [thr EXCEPT
            !.returned = Append(@, deriveRegulatoryThresholds(surf, thr.objs,
                                                              riskConstraints)),
            !.objs = SortedInPlace(surf, thr.objs, riskConstraints)]

\* the call with the caller's riskConstraints
Derive(surf) == DeriveUnder(surf, thr.riskConstraints)

DeriveWhole ==
  /\ Len(thr.returned) = 0
  /\ Derive(thr.surface)
  /\ UNCHANGED <<svars, bvars, calc>>

DeriveRest ==
  /\ Len(thr.returned) = 1
  /\ Derive(Without(thr.surface, thr.drop))
  /\ UNCHANGED <<svars, bvars, calc>>

NextThresholds == DeriveWhole \/ DeriveRest

SpecThresholds == InitThresholds /\ [][NextThresholds]_vars

(***************************************************************************)
(* deriveRegulatoryThresholds called on one surface under two sets of risk *)
(* constraints, one call after the other.                                  *)
(***************************************************************************)
InitRelax ==
  /\ \E surf \in Surfaces, objs \in FocusHeaps,
        rc \in RiskConstraintSets, relaxed \in RiskConstraintSets :
       thr = [surface |-> surf, objs |-> objs, riskConstraints |-> rc,
              relaxed |-> relaxed, drop |-> {}, given |-> objs, returned |-> <<>>]
  /\ calc = Empty
  /\ inputs = Empty /\ run = 0 /\ pc = "idle"
  /\ A = Empty /\ F = Empty /\ exposure = Empty /\ newA = Empty /\ newF = Empty
  /\ step = 0 /\ next = 1
  /\ history = [A |-> <<>>, F |-> <<>>]
  /\ results = <<>>
  /\ grid = Empty /\ surface = <<>> /\ cell = 1 /\ runK = 0 /\ cellResults = <<>>
  /\ bpc = "off"

\* the second call, on the same surface with the other constraints
DeriveRelaxed ==
  /\ Len(thr.returned) = 1
  /\ DeriveUnder(thr.surface, thr.relaxed)
  /\ UNCHANGED <<svars, bvars, calc>>

NextRelax == DeriveWhole \/ DeriveRelaxed

SpecRelax == InitRelax /\ [][NextRelax]_vars

(***************************************************************************)
(* computeSpatialFocusWeights (src/unnamed/part_002:135-172) called on its *)
(* own.                                                                    *)
(***************************************************************************)
WeightFocuses ==
  {NoFocus, UniformFocus, [NoFocus EXCEPT !.type = "ring"],
   [NoFocus EXCEPT !.type = "explicit"],
   ExplicitFocus([id \in Ids |-> Fin(2 * Scale)]),
   ExplicitFocus([id \in Ids |-> IF IndexOf(id) <= MaxRegions THEN Fin(2 * Scale) ELSE Zero]),
   ExplicitFocus([id \in Ids |-> IF IndexOf(id) = 1 THEN Fin(2 * Scale) ELSE Zero]),
   KernelFocus(<<>>), KernelFocus(<<Pool[1]>>), KernelFocus(<<Pool[2], Pool[1]>>),
   KernelFocus(<<Pool[MaxRegions + 1]>>)}

WeightPopulations == PopProfiles \cup {[id \in Ids |-> Zero]}

InitWeights ==
  /\ \E listed \in RegionLists, sf \in WeightFocuses, pops \in WeightPopulations :
       calc = [regions |-> listed, spatialFocus |-> sf, popByRegion |-> pops,
               weights |-> Empty, done |-> FALSE]
  /\ thr = Empty
  /\ inputs = Empty /\ run = 0 /\ pc = "idle"
  /\ A = Empty /\ F = Empty /\ exposure = Empty /\ newA = Empty /\ newF = Empty
  /\ step = 0 /\ next = 1
  /\ history = [A |-> <<>>, F |-> <<>>]
  /\ results = <<>>
  /\ grid = Empty /\ surface = <<>> /\ cell = 1 /\ runK = 0 /\ cellResults = <<>>
  /\ bpc = "off"

\* one call of computeSpatialFocusWeights, from entry to return
ComputeWeights ==
  /\ ~calc.done
  /\ calc' = [calc EXCEPT
                !.weights = computeSpatialFocusWeights(calc.regions, calc.spatialFocus,
                                                       calc.popByRegion),
                !.done = TRUE]
  /\ UNCHANGED <<svars, bvars, thr>>

NextWeights == ComputeWeights

SpecWeights == InitWeights /\ [][NextWeights]_vars

(***************************************************************************)
(* RealGisDensityProvider.getDensity (src/unnamed/part_004:37-57) called   *)
(* on its own.                                                             *)
(***************************************************************************)
\* a JavaScript object holding the properties props
Obj(props) == [k |-> "object", v |-> props]

\* x is undefined or null: what ?? and ?. test
Nullish(x) == x.k \in {"undef", "null"}

\* a ?? b
Coalesce(x, y) == IF Nullish(x) THEN y ELSE x

\* object[key]: undefined for a key the object does not hold
Prop(object, key) == IF key \in DOMAIN object.v THEN object.v[key] ELSE Undef

\* the lookup with || between the alternatives: a stored 0 counts as missing
getDensityOfTableOr(provider, regionId, t) ==
  LET timeSlice == Prop(provider.densityByRegionAndTime, t)
      meta == Prop(provider.regionMeta, regionId)
      baseDensity == IF Nullish(meta) THEN Undef ELSE Prop(meta, "baseDensity")
  IN  IF Nullish(timeSlice) THEN Coalesce(baseDensity, Zero)
      ELSE LET stored == Prop(timeSlice, regionId)
           IN  IF ~Nullish(stored) /\ Truthy(stored) THEN stored
               ELSE Coalesce(baseDensity, Zero)

\* lines 44-48: RealGisDensityProvider.getDensity(regionId, t)
getDensityOfTable(provider, regionId, t) ==
  LET timeSlice == Prop(provider.densityByRegionAndTime, t)
      meta == Prop(provider.regionMeta, regionId)
      \* this.regionMeta[regionId]?.baseDensity
      baseDensity == IF Nullish(meta) THEN Undef ELSE Prop(meta, "baseDensity")
  IN  IF Nullish(timeSlice) THEN Coalesce(baseDensity, Zero)
      ELSE Coalesce(Prop(timeSlice, regionId), Coalesce(baseDensity, Zero))

\* what a time slice holds for the first region of the pool; no other region has an entry
StoredEntries == {Undef, Null, Zero, Fin(2 * Scale)}

TimeSlices ==
  {Undef, Null} \cup {Obj([id \in {Pool[1]} |-> stored]) : stored \in StoredEntries}

RegionMetas ==
  {Undef} \cup {Obj([baseDensity |-> b]) : b \in {Undef, Null, Zero, Fin(5 * Scale)}}

\* tables with slices at the times 0 and 1, metadata for the first two regions of the pool
TableProviders ==
  {[regionMeta |-> Obj([id \in {Pool[1], Pool[2]} |-> IF id = Pool[1] THEN m ELSE other]),
    densityByRegionAndTime |-> Obj([t \in {0, 1} |-> IF t = 0 THEN first ELSE second])] :
     m \in RegionMetas, other \in {Undef, Obj([baseDensity |-> Fin(5 * Scale)])},
     first \in TimeSlices, second \in TimeSlices}

InitLookup ==
  /\ \E provider \in TableProviders, regionId \in Ids, t \in 0..MaxSteps :
       calc = [provider |-> provider, regionId |-> regionId, t |-> t,
               value |-> Empty, done |-> FALSE]
  /\ thr = Empty
  /\ inputs = Empty /\ run = 0 /\ pc = "idle"
  /\ A = Empty /\ F = Empty /\ exposure = Empty /\ newA = Empty /\ newF = Empty
  /\ step = 0 /\ next = 1
  /\ history = [A |-> <<>>, F |-> <<>>]
  /\ results = <<>>
  /\ grid = Empty /\ surface = <<>> /\ cell = 1 /\ runK = 0 /\ cellResults = <<>>
  /\ bpc = "off"

\* one call of getDensity(regionId, t), from entry to return
GetDensityCall ==
  /\ ~calc.done
  /\ calc' = [calc EXCEPT
                !.value = getDensityOfTable(calc.provider, calc.regionId, calc.t),
                !.done = TRUE]
  /\ UNCHANGED <<svars, bvars, thr>>

NextLookup == GetDensityCall

SpecLookup == InitLookup /\ [][NextLookup]_vars

(***************************************************************************)
(* Claims.                                                                 *)
(***************************************************************************)
InUnit(x) == Ge(x, Zero) /\ Le(x, One)

\* C1: in every snapshot of history.A the adoption of every listed region lies in
\* [0,1], whatever finite parameters the run is given.
C1_AdoptionInUnitInterval ==
  \A i \in 1..Len(history.A) : \A r \in SeqToSet(regions) :
     InUnit(Get(history.A[i].values, r))

\* C2: in every snapshot of history.F, the initial one included, the fear of every
\* listed region is >= 0.
C2_FearNonNegative ==
  \A i \in 1..Len(history.F) : \A r \in SeqToSet(regions) :
     Ge(Get(history.F[i].values, r), Zero)

BothDone == Len(results) = 2
SameArguments == inputs[1] = inputs[2]

\* C3 as stated: two calls with identical arguments return identical histories and
\* metrics.
C3_Deterministic == (BothDone /\ SameArguments) => results[1] = results[2]

\* C3 amended: two calls with identical arguments return identical histories and
\* metrics when simConfig supplies an rngFactory (a function of the seed); without
\* one the jitter comes from Math.random.
C3_DeterministicWithFactory ==
  (BothDone /\ SameArguments /\ in.sim.rngFactory # "none") => results[1] = results[2]

C3_Witness ==
  /\ BothDone /\ SameArguments /\ in.sim.rngFactory # "none"
  /\ Len(regions) = MaxRegions /\ Len(history.A) > 1
  /\ \E r \in SeqToSet(regions) :
       /\ Gt(history.A[1].values[r], Zero)
       /\ Lt(history.A[1].values[r], One)
       /\ Last(history.A).values[r] # history.A[1].values[r]

\* the step count the claim names: the largest k with k * dt <= timeHorizon
ClaimedT(theta) ==
  CHOOSE k \in 0..(MaxSteps + 2) :
    k * theta.dt.v <= theta.timeHorizon.v /\ (k + 1) * theta.dt.v > theta.timeHorizon.v

\* C4: history.A and history.F hold T+1 snapshots, T = floor(timeHorizon/dt); snapshot
\* k carries t = k*dt and is taken after exactly k commits and before the update of
\* step k is computed; nothing is committed after the last snapshot.
C4_SnapshotThenUpdate ==
  /\ Len(history.A) = Len(history.F)
  /\ \A i \in 1..Len(history.A) :
       history.A[i].t = Fin((i - 1) * in.theta.dt.v)
       /\ history.F[i].t = history.A[i].t
  /\ pc = "snapshot" => Len(history.A) = step
  /\ pc \in {"exposure", "update"} =>
       Len(history.A) = step + 1 /\ step < ClaimedT(in.theta)
  /\ pc \in {"metrics", "done"} =>
       /\ Len(history.A) = ClaimedT(in.theta) + 1
       /\ step = ClaimedT(in.theta)
       /\ Last(history.A).values = A /\ Last(history.F).values = F

C4_Witness ==
  /\ pc = "done" /\ Len(history.A) = MaxSteps + 1
  /\ in.theta.dt = Frac(1, 2)
  /\ Len(regions) > 0
  /\ \E r \in SeqToSet(regions) : history.A[1].values[r] # history.A[2].values[r]

\* the values the update of one step must produce for region r, from the snapshot
\* taken at the start of the step
StartA == Last(history.A).values
StartF == Last(history.F).values
StepResult(r) ==
  UpdateRegion(r, StartA, StartF,
               computeExposure(regions, StartA, in.provider, in.edges,
                               in.theta.signalStrength, in.sim.adoptionParams),
               in.sim)

\* C5: during the update of a step the state objects keep the values of the start of
\* the step, every region's new values are computed from those alone, and after the
\* commit every region holds its new value.
C5_UpdateFromOldState ==
  /\ pc = "update" =>
       /\ A = StartA /\ F = StartF
       /\ DOMAIN newA = {regions[i] : i \in 1..(next - 1)}
       /\ DOMAIN newF = DOMAIN newA
       /\ \A r \in DOMAIN newA :
            newA[r] = StepResult(r).a /\ newF[r] = StepResult(r).f
  /\ (pc = "snapshot" /\ step > 0) =>
       \A r \in SeqToSet(regions) :
          A[r] = StepResult(r).a /\ F[r] = StepResult(r).f

C5_Witness ==
  /\ pc = "update" /\ next > Len(regions) /\ Len(regions) >= 2
  /\ \A r \in SeqToSet(regions) : newA[r] # A[r] /\ newF[r] # F[r]
  /\ in.edges # <<>>
  /\ in.sim.harmWeights # NoHarmWeights

\* the population of the listed regions for which P holds, as a whole number of units
PopWhere(P(_)) ==
  LET rs == {i \in 1..Len(regions) : P(regions[i])}
      RECURSIVE sum(_)
      sum(S) == IF S = {} THEN 0
                ELSE LET i == CHOOSE j \in S : TRUE
                     IN in.sim.popByRegion[regions[i]].v + sum(S \ {i})
  IN sum(rs)

\* snapshot i is one in which the share at risk reaches the critical share
Qualifies(h, i) ==
  LET fp == in.sim.fearParams
      mat == IF fp.materialAdoption = Undef THEN 3 * (Scale \div 10)
             ELSE fp.materialAdoption.v
      crf == IF fp.criticalFear = Undef THEN 7 * (Scale \div 10) ELSE fp.criticalFear.v
      crs == IF fp.criticalPopShare = Undef THEN Scale \div 10
             ELSE fp.criticalPopShare.v
      risky(r) == LET a == h.A[i].values[r]
                      f == h.F[i].values[r]
                  IN IsFin(a) /\ IsFin(f) /\ a.v >= mat /\ f.v >= crf
      all(r) == TRUE
  IN PopWhere(all) > 0 /\ PopWhere(risky) * Scale >= crs * PopWhere(all)

\* C6: harmfulCascadeOccurred is true exactly when some snapshot has a share of the
\* listed population with A >= materialAdoption and F >= criticalFear that is
\* >= criticalPopShare.
C6_HarmfulFlag ==
  pc = "done" =>
    (Last(results).metrics.harmfulCascadeOccurred
       <=> \E i \in 1..Len(history.A) : Qualifies(history, i))

C6_Witness ==
  /\ pc = "done" /\ Len(regions) = 2
  /\ Last(results).metrics.harmfulCascadeOccurred
  /\ ~Qualifies(history, 1)

\* C7: data of ids that listRegions() does not return has no influence: the second
\* call, which differs from the first at most in such data, returns the same history
\* and metrics (the random source being seeded), and every snapshot has exactly the
\* listed ids as keys.
C7_UnlistedIgnored ==
  /\ (BothDone /\ in.sim.rngFactory # "none") => results[1] = results[2]
  /\ \A i \in 1..Len(history.A) :
       DOMAIN history.A[i].values = SeqToSet(regions)
       /\ DOMAIN history.F[i].values = SeqToSet(regions)

\* the values of grid point (i, j, l)
Echoes(c, i, j, l) ==
  /\ c.seedFraction = grid.seedFractions[i]
  /\ c.signalStrength = grid.signalStrengths[j]
  /\ c.spatialFocus = grid.spatialFocusOptions[l]

\* C8: the surface holds |seedFractions| x |signalStrengths| x |spatialFocusOptions|
\* cells (none when a list is empty), seedFraction outermost, then signalStrength,
\* then spatialFocus, each cell echoing the values of its grid point.
C8_SurfaceOrder ==
  LET nS == Len(grid.seedFractions)
      nG == Len(grid.signalStrengths)
      nF == Len(grid.spatialFocusOptions)
  IN /\ Len(surface) <= nS * nG * nF
     /\ bpc \in {"returned", "standalone"} => Len(surface) = nS * nG * nF
     /\ \A i \in 1..nS, j \in 1..nG, l \in 1..nF :
          LET pos == ((i - 1) * nG + (j - 1)) * nF + l
          IN pos <= Len(surface) => Echoes(surface[pos], i, j, l)

C8_Witness ==
  /\ bpc = "returned"
  /\ Len(surface) = MaxGrid * MaxGrid * MaxGrid
  /\ \A a, b \in 1..Len(surface) :
       a # b => <<surface[a].seedFraction, surface[a].signalStrength,
                  surface[a].spatialFocus>>
                # <<surface[b].seedFraction, surface[b].signalStrength,
                    surface[b].spatialFocus>>

\* the sum of a peak over the raw entries, in units
RECURSIVE UnitSum(_, _, _)
UnitSum(raw, key, n) == IF n = 0 THEN 0 ELSE UnitSum(raw, key, n - 1) + raw[n][key].v

\* m is x / n rounded to the nearest unit
IsQuotient(m, x, n) == IsFin(m) /\ 2 * Abs(m.v * n - x) <= n

\* C9: a cell's stats are computed from all runsPerPoint runs: while run k is running
\* its theta is the cell's with randomSeed = k, its metrics become entry k of the raw
\* list, and the finished cell has runsPerPoint raw entries, probabilityHarmful =
\* harmful runs / runsPerPoint and the two means over the same runs.
C9_AggregateAfterAllRuns ==
  LET n == grid.runsPerPoint
      nG == Len(grid.signalStrengths)
      nF == Len(grid.spatialFocusOptions)
  IN /\ bpc = "calling" =>
          /\ Len(cellResults) = runK /\ runK < n
          /\ in.theta.randomSeed = Fin(runK * Scale)
          /\ in.theta.timeHorizon = grid.base.timeHorizon
          /\ in.theta.dt = grid.base.dt
          /\ Echoes(in.theta, ((cell - 1) \div (nG * nF)) + 1,
                    (((cell - 1) \div nF) % nG) + 1, ((cell - 1) % nF) + 1)
          /\ in.sim = grid.base.sim
     /\ (bpc = "runs" /\ runK > 0) =>
          Len(cellResults) = runK /\ cellResults[runK] = Last(results).metrics
     /\ (bpc = "cell" /\ cell > 1) => surface[cell - 1].stats.raw = cellResults
     /\ \A c \in 1..Len(surface) :
          LET st == surface[c].stats
              harmful == {i \in 1..Len(st.raw) : st.raw[i].harmfulCascadeOccurred}
          IN /\ Len(st.raw) = n
             /\ n > 0 =>
                  /\ IsQuotient(st.probabilityHarmful, Cardinality(harmful) * Scale, n)
                  /\ IsQuotient(st.meanGlobalPeakAdoption,
                                UnitSum(st.raw, "globalPeakAdoption", n), n)
                  /\ IsQuotient(st.meanGlobalPeakFear,
                                UnitSum(st.raw, "globalPeakFear", n), n)

C9_Witness ==
  /\ bpc = "returned" /\ grid.runsPerPoint = MaxRuns
  /\ \E c \in 1..Len(surface) :
       LET st == surface[c].stats
       IN /\ st.raw[1] # st.raw[2]
          /\ st.probabilityHarmful = Frac(1, 2)
          /\ Gt(st.meanGlobalPeakAdoption, Zero)
          /\ st.raw[1].globalPeakAdoption # st.raw[2].globalPeakAdoption

\* the repeated run has returned
StandaloneDone == bpc = "standalone" /\ pc = "done"

\* C10 as stated: entry k of a cell's raw list equals the metrics of a standalone call
\* with the cell's parameters and randomSeed = k.
C10_RunsIndependent ==
  StandaloneDone => Last(results).metrics = surface[cell].stats.raw[runK + 1]

\* C10 amended: the same, when baseSimConfig supplies an rngFactory (a function of
\* the seed); without one every run draws from Math.random.
C10_RunsIndependentWithFactory ==
  (StandaloneDone /\ grid.base.sim.rngFactory # "none") =>
    Last(results).metrics = surface[cell].stats.raw[runK + 1]

C10_Witness ==
  /\ StandaloneDone /\ grid.base.sim.rngFactory # "none"
  /\ cell > 1 /\ runK > 0
  /\ surface[cell].stats.raw[runK + 1] # surface[cell].stats.raw[1]
  /\ surface[cell].stats.raw[runK + 1] # surface[1].stats.raw[runK + 1]

(***************************************************************************)
(* Claims about deriveRegulatoryThresholds, under SpecThresholds.          *)
(***************************************************************************)
\* the surface the k-th call received and the result it returned
CalledWith(k) == IF k = 1 THEN thr.surface ELSE Without(thr.surface, thr.drop)

\* x <= y for two numbers, false when either is NaN or undefined
AtMost(x, y) ==
  /\ x.k \in {"fin", "inf"} /\ y.k \in {"fin", "inf"}
  /\ IF x.k = "fin" /\ y.k = "fin" THEN x.v <= y.v
     ELSE IF x.k = "inf" THEN x.v < 0 \/ x = y
     ELSE y.v > 0

\* the cell satisfies the risk constraints as the specification states them
Satisfies(c, rc) ==
  /\ AtMost(c.stats.probabilityHarmful, rc.maxHarmProbability)
  /\ AtMost(c.stats.meanGlobalPeakFear,
            IF rc.maxMeanGlobalFear = Undef THEN One ELSE rc.maxMeanGlobalFear)

SatisfyingCells(surf) == {i \in 1..Len(surf) : Satisfies(surf[i], thr.riskConstraints)}

ThresholdFields ==
  {"spatialFocusKey", "maxSafeSeedFraction", "maxSafeSignalStrength", "riskConstraints"}

\* C11: every call returns; the result is {safe: false, message: "No parameter
\* region satisfies risk constraints.", thresholds: null} exactly when no cell of
\* the surface satisfies the risk constraints (the empty surface included), and
\* otherwise safe: true with a non-empty list of threshold records.
C11_UnsafeResult ==
  \A i \in 1..Len(thr.returned) :
    IF SatisfyingCells(CalledWith(i)) = {}
      THEN thr.returned[i] =
             [safe |-> FALSE,
              message |-> "No parameter region satisfies risk constraints.",
              thresholds |-> Null]
      ELSE /\ thr.returned[i].safe = TRUE
           /\ DOMAIN thr.returned[i] = {"safe", "thresholds"}
           /\ Len(thr.returned[i].thresholds) > 0
           /\ \A j \in 1..Len(thr.returned[i].thresholds) :
                DOMAIN thr.returned[i].thresholds[j] = ThresholdFields

\* a surface with safe cells gave thresholds and the rest of it, not empty and
\* without a safe cell, gave the unsafe result
C11_Witness ==
  /\ Len(thr.returned) = 2
  /\ thr.returned[1].safe
  /\ ~thr.returned[2].safe
  /\ Len(CalledWith(2)) > 0

\* every removed cell fails the risk constraints
OnlyUnsafeRemoved ==
  \A i \in thr.drop : ~Satisfies(thr.surface[i], thr.riskConstraints)

\* C12: a cell passes the filter exactly when its probabilityHarmful is at most
\* maxHarmProbability and its meanGlobalPeakFear is at most maxMeanGlobalFear (1.0
\* when unspecified), and removing cells that fail either test leaves the result
\* unchanged.
C12_OnlySafeCellsCount ==
  /\ \A i \in 1..Len(thr.surface) :
       SafeCell(thr.surface[i], thr.riskConstraints)
         <=> Satisfies(thr.surface[i], thr.riskConstraints)
  /\ (Len(thr.returned) = 2 /\ OnlyUnsafeRemoved) => thr.returned[1] = thr.returned[2]

\* thresholds were derived with and without a cell that fails only the fear test,
\* against the default maxMeanGlobalFear
C12_Witness ==
  /\ Len(thr.returned) = 2
  /\ thr.returned[1].safe
  /\ OnlyUnsafeRemoved
  /\ thr.riskConstraints.maxMeanGlobalFear = Undef
  /\ \E i \in thr.drop :
       /\ AtMost(thr.surface[i].stats.probabilityHarmful,
                 thr.riskConstraints.maxHarmProbability)
       /\ ~AtMost(thr.surface[i].stats.meanGlobalPeakFear, One)

\* s and t hold the same ids the same number of times
SameBag(s, t) ==
  /\ Len(s) = Len(t)
  /\ \A x \in SeqToSet(s) \cup SeqToSet(t) :
       Cardinality({i \in 1..Len(s) : s[i] = x}) = Cardinality({i \in 1..Len(t) : t[i] = x})

\* the ids of ids in ascending order
Ascending(ids) ==
  CHOOSE s \in [1..Len(ids) -> SeqToSet(ids)] :
    /\ SameBag(s, ids)
    /\ \A i \in 1..(Len(s) - 1) : IndexOf(s[i]) <= IndexOf(s[i + 1])

\* the key the specification gives a focus; it names none for a focus without type
ClaimedKey(f) ==
  IF f.type \in {"none", "uniform"} THEN <<"uniform">>
  ELSE IF f.type = "kernel" THEN <<"kernel:">> \o Ascending(f.centerIds)
  ELSE IF f.type = "explicit" THEN <<"explicit">>
  ELSE IF f.type = "" THEN spatialFocusKey(f)
  ELSE <<f.type>>

\* the largest of a non-empty set of finite numbers
Largest(S) == CHOOSE m \in S : \A x \in S : x.v <= m.v

\* the safe cells of surf whose focus has the key
GroupOf(surf, key) ==
  {i \in SatisfyingCells(surf) : ClaimedKey(thr.given[surf[i].spatialFocus]) = key}

\* C13: a safe result holds exactly one threshold record per distinct spatial-focus
\* key among the safe cells; its maxSafeSeedFraction is the largest seedFraction and
\* its maxSafeSignalStrength the largest signalStrength over the safe cells of that
\* key, each taken on its own; it carries the riskConstraints passed in.
C13_OneRecordPerKey ==
  \A i \in 1..Len(thr.returned) :
    thr.returned[i].safe =>
      LET surf == CalledWith(i)
          T == thr.returned[i].thresholds
          keys == {ClaimedKey(thr.given[surf[j].spatialFocus]) : j \in SatisfyingCells(surf)}
      IN /\ Len(T) = Cardinality(keys)
         /\ {T[j].spatialFocusKey : j \in 1..Len(T)} = keys
         /\ \A j \in 1..Len(T) :
              LET G == GroupOf(surf, T[j].spatialFocusKey)
              IN /\ T[j].maxSafeSeedFraction = Largest({surf[c].seedFraction : c \in G})
                 /\ T[j].maxSafeSignalStrength = Largest({surf[c].signalStrength : c \in G})
                 /\ T[j].riskConstraints = thr.riskConstraints

\* a record was returned with maxima that no single safe cell of its group attains
\* together
C13_Witness ==
  \E i \in 1..Len(thr.returned) :
    /\ thr.returned[i].safe
    /\ \E j \in 1..Len(thr.returned[i].thresholds) :
         LET rec == thr.returned[i].thresholds[j]
             G == GroupOf(CalledWith(i), rec.spatialFocusKey)
         IN /\ Cardinality(G) = 2
            /\ \A c \in G :
                 \/ CalledWith(i)[c].seedFraction # rec.maxSafeSeedFraction
                 \/ CalledWith(i)[c].signalStrength # rec.maxSafeSignalStrength

\* the records of result T that hold the key of cell c1 or of cell c2 of surf
RecordsOf(T, surf, c1, c2) ==
  {j \in 1..Len(T) :
     T[j].spatialFocusKey \in {spatialFocusKey(thr.given[surf[c1].spatialFocus]),
                               spatialFocusKey(thr.given[surf[c2].spatialFocus])}}

\* two safe cells of the i-th call with kernel focuses whose center ids are
\* related by Same share one threshold record
KernelCellsShareRecord(Same(_, _)) ==
  \A i \in 1..Len(thr.returned) :
    thr.returned[i].safe =>
      \A c1, c2 \in SatisfyingCells(CalledWith(i)) :
        LET f1 == thr.given[CalledWith(i)[c1].spatialFocus]
            f2 == thr.given[CalledWith(i)[c2].spatialFocus]
        IN (f1.type = "kernel" /\ f2.type = "kernel" /\ Same(f1.centerIds, f2.centerIds))
             => Cardinality(RecordsOf(thr.returned[i].thresholds, CalledWith(i), c1, c2)) = 1

SameSet(s, t) == SeqToSet(s) = SeqToSet(t)

\* C14 as stated: two safe cells whose kernel focuses list the same set of center
\* ids, in whatever order, fall under the same key and give a single threshold
\* record.
C14_SameCenterSetSharesKey == KernelCellsShareRecord(SameSet)

\* what the key guarantees: two safe cells whose kernel focuses list the same
\* center ids the same number of times, in whatever order, give a single record
PermutedCentersShareKey == KernelCellsShareRecord(SameBag)

\* a single record was returned for two safe cells whose center ids differ in order
PermutedCentersReached ==
  \E i \in 1..Len(thr.returned) :
    /\ thr.returned[i].safe
    /\ Len(thr.returned[i].thresholds) = 1
    /\ \E c1, c2 \in SatisfyingCells(CalledWith(i)) :
         LET f1 == thr.given[CalledWith(i)[c1].spatialFocus]
             f2 == thr.given[CalledWith(i)[c2].spatialFocus]
         IN /\ f1.type = "kernel" /\ f2.type = "kernel"
            /\ f1.centerIds # f2.centerIds
            /\ SameBag(f1.centerIds, f2.centerIds)

(***************************************************************************)
(* Claims about computeSpatialFocusWeights, under SpecWeights.             *)
(***************************************************************************)
Listed == SeqToSet(calc.regions)

RECURSIVE UnitsOver(_, _)
\* the sum of f over the ids of S, in units of 1/Scale
UnitsOver(f, S) ==
  IF S = {} THEN 0
  ELSE LET x == CHOOSE y \in S : TRUE IN f[x].v + UnitsOver(f, S \ {x})

\* the units sum to 1 up to the rounding of n terms
NearOne(units, n) == 2 * Abs(units - Scale) <= n

\* m is the quotient x / y of two integers, rounded to a unit
IsRatio(m, x, y) == IsFin(m) /\ 2 * Abs(m.v * y - x * Scale) <= y

ExplicitCall ==
  calc.done /\ calc.spatialFocus.type = "explicit" /\ calc.spatialFocus.hasWeights

\* C15: for an explicit focus the returned weights sum to 1 over the listed regions,
\* each is proportional to its entry of the supplied map, and a listed region
\* without a (non-zero) entry gets 0; e.g. {A:2, B:2} over [A, B] gives 0.5 and 0.5.
C15_ExplicitNormalised ==
  LET raw == calc.spatialFocus.weights
      total == UnitsOver(raw, Listed)
  IN (ExplicitCall /\ total > 0) =>
       /\ NearOne(UnitsOver(calc.weights, Listed), Len(calc.regions))
       /\ \A r \in Listed : IsRatio(calc.weights[r], raw[r].v, total)

UniformCall ==
  /\ calc.done
  /\ calc.spatialFocus.type \in {"none", "uniform", "ring"}
  /\ Len(calc.regions) > 0

\* C16: when the focus is missing, of type uniform or of an unrecognised type, each
\* of the N listed regions gets the weight 1/N, and the weights sum to 1.
C16_UniformWeights ==
  UniformCall =>
    /\ DOMAIN calc.weights = Listed
    /\ \A r \in Listed : IsRatio(calc.weights[r], 1, Len(calc.regions))
    /\ NearOne(UnitsOver(calc.weights, Listed), Len(calc.regions))

\* the weights of two regions under a focus of an unrecognised type
C16_Witness ==
  UniformCall /\ calc.spatialFocus.type = "ring" /\ Len(calc.regions) = MaxRegions

Centers == SeqToSet(calc.spatialFocus.centerIds)
PopUnits(S) == UnitsOver([r \in S |-> PopOf(calc.popByRegion, r)], S)

\* the weights the claim states for a kernel focus
KernelWeightsAsClaimed ==
  /\ DOMAIN calc.weights = Listed
  /\ \A r \in Listed \cap Centers :
       PopUnits(Listed \cap Centers) > 0 =>
         IsRatio(calc.weights[r], PopOf(calc.popByRegion, r).v, PopUnits(Listed \cap Centers))
  /\ PopUnits(Listed \cap Centers) > 0 =>
       NearOne(UnitsOver(calc.weights, Listed \cap Centers), Len(calc.regions))
  /\ \A r \in Listed \ Centers :
       PopUnits(Listed) > 0 =>
         IsRatio(calc.weights[r], PopOf(calc.popByRegion, r).v, 1000 * PopUnits(Listed))

KernelCall == calc.done /\ calc.spatialFocus.type = "kernel"

\* C17 as stated: for a kernel focus a listed center gets its population divided by
\* the population of the listed centers (the center weights sum to 1 when that is
\* positive) and a listed non-center gets 0.001 x its population divided by the
\* population of the listed regions.
C17_KernelWeights == KernelCall => KernelWeightsAsClaimed

\* C17 amended: the same for a kernel focus with a non-empty centerIds list.
C17_KernelWeightsWithCenters ==
  (KernelCall /\ Len(calc.spatialFocus.centerIds) > 0) => KernelWeightsAsClaimed

\* a center and a non-center with population were weighted
C17_Witness ==
  /\ KernelCall
  /\ \E c \in Listed \cap Centers, o \in Listed \ Centers :
       /\ PopOf(calc.popByRegion, c).v > 0 /\ PopOf(calc.popByRegion, o).v > 0
       /\ calc.weights[c] = One
       /\ calc.weights[o].v > 0

(***************************************************************************)
(* Claims about the metrics of a run, under Spec.                          *)
(***************************************************************************)
\* the series the metrics of call i are taken from: the snapshot times, the
\* population-weighted averages and the values of region r
TimesOf(i) == [s \in 1..Len(results[i].history.A) |-> results[i].history.A[s].t]
AveragesOf(i, kind) ==
  [s \in 1..Len(results[i].history[kind]) |->
     WeightedAverage(results[i].history[kind][s].values, inputs[i].provider.regions,
                     inputs[i].sim.popByRegion)]
ValuesOf(i, kind, r) ==
  [s \in 1..Len(results[i].history[kind]) |->
     OrElse(Get(results[i].history[kind][s].values, r), Zero)]

\* position s holds the highest value of vals among the positions in S, and is the
\* first of S to hold it
FirstHighest(vals, S, s) ==
  /\ s \in S
  /\ \A j \in S : ~Gt(vals[j], vals[s])
  /\ \A j \in S : j < s => Gt(vals[s], vals[j])

\* peak and time are the highest value of the series and the t of the first
\* snapshot that attains it
PeakAsStated(vals, times, peak, time) ==
  \E s \in 1..Len(vals) :
    FirstHighest(vals, 1..Len(vals), s) /\ peak = vals[s] /\ time = times[s]

\* the same when some value exceeds 0 (a NaN never does); otherwise 0 and null
PeakAboveZero(vals, times, peak, time) ==
  LET S == {s \in 1..Len(vals) : Gt(vals[s], Zero)}
  IN IF S = {} THEN peak = Zero /\ time = Null
     ELSE \E s \in S : FirstHighest(vals, S, s) /\ peak = vals[s] /\ time = times[s]

\* the four global and the per-region peaks of call i satisfy P
PeaksSatisfy(i, P(_, _, _, _)) ==
  LET m == results[i].metrics
  IN /\ P(AveragesOf(i, "A"), TimesOf(i), m.globalPeakAdoption, m.peakAdoptionTime)
     /\ P(AveragesOf(i, "F"), TimesOf(i), m.globalPeakFear, m.peakFearTime)
     /\ \A r \in SeqToSet(inputs[i].provider.regions) :
          /\ P(ValuesOf(i, "A", r), TimesOf(i),
               m.perRegion[r].peakAdoption, m.perRegion[r].peakAdoptionTime)
          /\ P(ValuesOf(i, "F", r), TimesOf(i),
               m.perRegion[r].peakFear, m.perRegion[r].peakFearTime)

\* every value of every snapshot of call i lies in [0, 1]
HistoryInUnit(i) ==
  \A kind \in {"A", "F"} : \A s \in 1..Len(results[i].history[kind]) :
    \A r \in SeqToSet(inputs[i].provider.regions) :
      InUnit(Get(results[i].history[kind][s].values, r))

\* C18 as stated: globalPeakAdoption and globalPeakFear are the highest
\* population-weighted average over all snapshots, peakAdoptionTime and
\* peakFearTime the t of the first snapshot attaining it, and the per-region peaks
\* and times likewise from the region's own values (checked for runs of at least
\* one step over at least one region whose values all lie in [0, 1]).
C18_PeaksAndTimes ==
  \A i \in 1..Len(results) :
    (HistoryInUnit(i) /\ Len(inputs[i].provider.regions) > 0 /\ Len(TimesOf(i)) > 1)
      => PeaksSatisfy(i, PeakAsStated)

\* what the scan computes: the stated peak and time whenever some value exceeds 0;
\* when no snapshot's value exceeds 0 the peak is 0 and its time is null
PeaksAboveZero ==
  \A i \in 1..Len(results) : PeaksSatisfy(i, PeakAboveZero)

\* a run whose average adoption peaked at the first snapshot and stayed there, and
\* whose average fear never exceeded 0
PeaksAboveZeroReached ==
  \E i \in 1..Len(results) :
    /\ HistoryInUnit(i)
    /\ Len(TimesOf(i)) >= 2
    /\ results[i].metrics.peakAdoptionTime = TimesOf(i)[1]
    /\ AveragesOf(i, "A")[2] = AveragesOf(i, "A")[1]
    /\ results[i].metrics.peakFearTime = Null

(***************************************************************************)
(* Claims about the density provider.                                      *)
(***************************************************************************)
\* C19 (under SpecAsync): a run over an asynchronous provider, whose getDensity
\* delivers its value after a suspension, returns the same history and metrics as
\* the run over the synchronous provider with the same densities (checked for
\* runs whose values with the synchronous provider all lie in [0, 1]).
C19_AsyncProviderTolerated ==
  (/\ BothDone
   /\ HistoryInUnit(1)
   /\ inputs[1].provider.kind = "sync"
   /\ inputs[2] = [inputs[1] EXCEPT !.provider.kind = "async"])
    => results[1] = results[2]

\* a provider call of the run in progress has thrown
RunAborted == pc = "thrown"

\* C20 (under SpecSurface): a failure of the provider is not caught: the run that
\* met it returns nothing and stays aborted, and buildResponseSurface ends with the
\* failure, its surface never returned, no further cell or run begun.
C20_ProviderFailureAborts ==
  /\ [][(BeginThrows \/ ExposureThrows) => RunAborted']_vars
  /\ [](RunAborted => (results = <<>> /\ bpc \in {"calling", "failed", "standalone"}))
  /\ []((pc # "idle" /\ in.provider.kind = "abstract") => pc \in {"begin", "thrown"})
  /\ []((bpc = "returned" /\ grid.base.provider.kind = "abstract")
        => (surface = <<>> \/ grid.runsPerPoint = 0))
  /\ [](bpc = "failed" => RunAborted)
  /\ [][RunAborted => (RunAborted' /\ results' = results)]_vars
  /\ [][bpc = "failed" => UNCHANGED vars]_vars

\* buildResponseSurface failed with one cell on its surface and one finished run of
\* the next cell
C20_Witness ==
  /\ bpc = "failed"
  /\ Len(surface) = 1
  /\ Len(cellResults) = 1

(***************************************************************************)
(* Claims about degenerate inputs.                                         *)
(***************************************************************************)
\* the state objects hold the initial adoption of the call in progress
Initialised == pc = "snapshot" /\ step = 0 /\ Len(history.A) = 0

\* the listed regions of the call in progress with population 0
ZeroPopRegions == {r \in SeqToSet(regions) : PopOf(in.sim.popByRegion, r) = Zero}

\* the adoption the claim gives a region of population 0: both divisors are 1
SeedOfZeroPop(r) ==
  LET n == Len(regions)
      pops == [q \in SeqToSet(regions) |-> PopOf(in.sim.popByRegion, q)]
      target == Mul(SumOver(regions, pops, n), in.theta.seedFraction)
      w == computeSpatialFocusWeights(regions, in.theta.spatialFocus, in.sim.popByRegion)[r]
      u == SeededDraws(in.sim, in.theta, n)[CHOOSE i \in 1..n : regions[i] = r]
  IN clamp01(Add(MathMin(One, Mul(w, target)), Jitter(u)))

\* C21: a listed region with population 0 gets an initial adoption that is a finite
\* number in [0, 1]: the zero population is replaced by 1 in both divisions.
C21_ZeroPopulationSeed ==
  Initialised =>
    \A r \in ZeroPopRegions :
      /\ IsFin(A[r]) /\ InUnit(A[r])
      /\ in.sim.rngFactory # "none" => A[r] = SeedOfZeroPop(r)

\* a region of population 0 was seeded with more than the jitter can give
C21_Witness ==
  Initialised /\ \E r \in ZeroPopRegions : Gt(A[r], Frac(1, 10))

\* C22 (under SpecSurface): with runsPerPoint = 0 buildResponseSurface returns one
\* cell per grid point, each with an empty raw list and meanGlobalPeakAdoption,
\* meanGlobalPeakFear and probabilityHarmful equal to 0.
C22_NoRunsAggregate ==
  (bpc = "returned" /\ grid.runsPerPoint = 0) =>
    /\ Len(surface) = GridSize(grid)
    /\ \A c \in 1..Len(surface) :
         /\ surface[c].stats.raw = <<>>
         /\ surface[c].stats.meanGlobalPeakAdoption = Zero
         /\ surface[c].stats.meanGlobalPeakFear = Zero
         /\ surface[c].stats.probabilityHarmful = Zero

\* a surface of several cells was returned without a run
C22_Witness ==
  bpc = "returned" /\ grid.runsPerPoint = 0 /\ Len(surface) > 1 /\ run = 0

\* C23 (under SpecDensity): the densities the provider holds for times other than 0
\* have no influence: the run over a provider that differs only in them returns the
\* same history and metrics.
C23_OnlyDensityAtZero ==
  (/\ BothDone
   /\ inputs[2].provider.density[0] = inputs[1].provider.density[0]
   /\ \A x \in DOMAIN inputs[1] \ {"provider"} : inputs[2][x] = inputs[1][x])
    => results[1] = results[2]

\* both runs took two steps in which adoption rose, over a positive density at
\* time 0 and different densities at time 1
C23_Witness ==
  /\ BothDone
  /\ inputs[2].provider.density[1] # inputs[1].provider.density[1]
  /\ Len(results[1].history.A) > 2
  /\ \E r \in SeqToSet(regions) :
       /\ Gt(inputs[1].provider.density[0][r], Zero)
       /\ Gt(results[1].history.A[2].values[r], results[1].history.A[1].values[r])
       /\ Gt(results[1].history.A[3].values[r], results[1].history.A[2].values[r])

(***************************************************************************)
(* Claims about what a call writes.                                        *)
(***************************************************************************)
\* sequence s continues as sequence t: t has s as its first elements
IsPrefix(s, t) == Len(s) <= Len(t) /\ \A i \in 1..Len(s) : t[i] = s[i]

\* C24: a run leaves its arguments (theta, simConfig, the mobility graph, the
\* provider's region list) as they were, no step alters a snapshot already stored in
\* the history or a result already returned, and a second run shares the arguments.
C24_RunOnlyReadsInputs ==
  [][/\ inputs' = inputs
     /\ pc # "begin" => (IsPrefix(history.A, history'.A) /\ IsPrefix(history.F, history'.F))
     /\ IsPrefix(results, results')]_vars

\* the second run over the shared arguments has committed a step that changed the
\* state objects after a snapshot
C24_Witness ==
  /\ run = 2 /\ SameArguments
  /\ pc = "snapshot" /\ step > 0
  /\ A # Last(history.A).values
  /\ F # Last(history.F).values

(***************************************************************************)
(* Claims about the table-backed density provider.                         *)
(***************************************************************************)
\* the time slice of the call, and what it holds for the region of the call
SliceOfCall == Prop(calc.provider.densityByRegionAndTime, calc.t)
EntryOfCall == IF Nullish(SliceOfCall) THEN Undef ELSE Prop(SliceOfCall, calc.regionId)
BaseOfCall ==
  LET meta == Prop(calc.provider.regionMeta, calc.regionId)
  IN  IF Nullish(meta) THEN Undef ELSE Prop(meta, "baseDensity")

\* C25: getDensity(regionId, t) returns the value stored for (t, regionId) when the
\* slice of time t exists and holds an entry for the region (a stored 0 included),
\* otherwise the region's baseDensity from regionMeta, otherwise 0.
C25_TableThenBaseThenZero ==
  calc.done =>
    calc.value = (IF ~Nullish(EntryOfCall) THEN EntryOfCall
                  ELSE IF ~Nullish(BaseOfCall) THEN BaseOfCall
                  ELSE Zero)

\* a stored density of 0 was returned for a region whose baseDensity is positive
C25_Witness ==
  /\ calc.done
  /\ EntryOfCall = Zero
  /\ BaseOfCall = Fin(5 * Scale)
  /\ calc.value = Zero

(***************************************************************************)
(* Claims about one update step.                                           *)
(***************************************************************************)
\* the update loop has gone through every region: newA and newF are complete, A, F and
\* exposure still hold what the step read
StepComputed == pc = "update" /\ next > Len(regions)

\* the fear driver of region r in the step: kExposure*e + kGrowth*max(0, dA) +
\* kHarm*harmSignal, before the spike
DriverOf(r) ==
  LET p == in.sim.fearParams
      e == OrElse(Get(exposure, r), Zero)
      dA == adoptionIncrement(A[r], F[r], e, in.sim.adoptionParams)
      harmSignal == computeHarmSignal(r, A, F, exposure, in.sim.harmWeights)
  IN  Add(Add(Mul(Dflt(p.kExposure, Frac(1, 10)), e),
              Mul(Dflt(p.kGrowth, Frac(1, 2)), MathMax(Zero, dA))),
          Mul(Dflt(p.kHarm, One), harmSignal))

\* the spike applies: nonLinearSpike is enabled and the driver exceeds spikeThreshold
Spiked(r) ==
  /\ Dflt(in.sim.fearParams.nonLinearSpike, BoolT) = BoolT
  /\ Gt(DriverOf(r), Dflt(in.sim.fearParams.spikeThreshold, Frac(2, 10)))

\* max(0, F + driver' - decay*F), with driver' the driver times spikeGain exactly when
\* the spike applies
FearAsStated(r) ==
  LET p == in.sim.fearParams
      spiked == IF Spiked(r) THEN Mul(DriverOf(r), Dflt(p.spikeGain, Fin(2 * Scale)))
                ELSE DriverOf(r)
  IN  MathMax(Zero, Sub(Add(F[r], spiked), Mul(Dflt(p.decay, Frac(5, 100)), F[r])))

\* C26: the new fear of every region is max(0, F + driver' - decay*F), driver' being
\* the driver multiplied by spikeGain exactly when nonLinearSpike is enabled and the
\* driver exceeds spikeThreshold; no upper cap is applied.
C26_FearUpdate ==
  StepComputed => \A r \in SeqToSet(regions) : newF[r] = FearAsStated(r)

\* a step in which a spiked driver took the fear of a region above 1
C26_Witness ==
  /\ StepComputed
  /\ \E r \in SeqToSet(regions) :
       /\ Spiked(r)
       /\ IsFin(newF[r]) /\ Gt(newF[r], One)
       /\ Gt(newF[r], F[r])

\* the premise of C27 on the arguments of run i: signalStrength, edge weights,
\* densities, the contact and exposure parameters and maxRate are non-negative
NonNegativeArguments(i) ==
  LET p == inputs[i].sim.adoptionParams
  IN  /\ Ge(inputs[i].theta.signalStrength, Zero)
      /\ \A n \in 1..Len(inputs[i].edges) : Ge(inputs[i].edges[n].weight, Zero)
      /\ \A r \in SeqToSet(inputs[i].provider.regions) :
           Ge(inputs[i].provider.density[DensityTime][r], Zero)
      /\ Ge(Dflt(p.localWeight, One), Zero)
      /\ Ge(Dflt(p.importedWeight, One), Zero)
      /\ Ge(Dflt(p.baseContact, Frac(1, 100)), Zero)
      /\ Ge(Dflt(p.densityExponent, Frac(1, 2)), Zero)
      /\ Ge(Dflt(p.exposureScale, One), Zero)
      /\ Ge(Dflt(p.maxRate, Frac(2, 10)), Zero)

\* fear is non-negative in every snapshot of the history h
NonNegativeFear(h) ==
  \A n \in 1..Len(h.F) : \A r \in DOMAIN h.F[n].values : Ge(h.F[n].values[r], Zero)

\* between consecutive snapshots of the adoption series every region rises by at
\* least 0 and at most maxRate
WithinRate(series, maxRate) ==
  \A n \in 1..(Len(series) - 1) : \A r \in DOMAIN series[n].values :
    LET rise == Sub(series[n + 1].values[r], series[n].values[r])
    IN  Ge(rise, Zero) /\ Le(rise, maxRate)

\* C27: given non-negative signalStrength, edge weights, density, contact and exposure
\* parameters, maxRate and fear, the adoption of every region rises from each snapshot
\* to the next by at least 0 and at most maxRate.
C27_AdoptionRisesWithinRate ==
  \A i \in 1..Len(results) :
    (NonNegativeArguments(i) /\ NonNegativeFear(results[i].history))
      => WithinRate(results[i].history.A,
                    Dflt(inputs[i].sim.adoptionParams.maxRate, Frac(2, 10)))

\* the same with fearSensitivity non-negative as well: the fear factor is then in (0, 1]
RisesWithinRateForDampingFear ==
  \A i \in 1..Len(results) :
    (/\ NonNegativeArguments(i) /\ NonNegativeFear(results[i].history)
     /\ Ge(Dflt(inputs[i].sim.adoptionParams.fearSensitivity, One), Zero))
      => WithinRate(results[i].history.A,
                    Dflt(inputs[i].sim.adoptionParams.maxRate, Frac(2, 10)))

\* a returned run under the premise in which a region rose by exactly maxRate in one
\* step and by less in another
RisesWithinRateReached ==
  \E i \in 1..Len(results) :
    LET series == results[i].history.A
        maxRate == Dflt(inputs[i].sim.adoptionParams.maxRate, Frac(2, 10))
    IN  /\ NonNegativeArguments(i) /\ NonNegativeFear(results[i].history)
        /\ Ge(Dflt(inputs[i].sim.adoptionParams.fearSensitivity, One), Zero)
        /\ Len(series) > 2
        /\ \E r \in DOMAIN series[1].values :
             /\ Gt(series[2].values[r], series[1].values[r])
             /\ Gt(series[3].values[r], series[2].values[r])

\* the regions with an edge into region r in the mobility graph of run i
SourcesInto(i, r) ==
  {inputs[i].edges[n].from : n \in {m \in 1..Len(inputs[i].edges) : inputs[i].edges[m].to = r}}

\* region r and every region with an edge into it have adoption 0 in the snapshot
Unreached(i, snapshot, r) ==
  /\ snapshot.values[r] = Zero
  /\ \A s \in SourcesInto(i, r) : OrElse(Get(snapshot.values, s), Zero) = Zero

\* C28: a region whose adoption is 0 in a snapshot, and whose sources of incoming
\* edges all have adoption 0 there (or that has no incoming edge), has adoption 0 in
\* the next snapshot.
C28_SpreadsOnlyAlongEdges ==
  \A i \in 1..Len(results) :
    LET series == results[i].history.A
    IN  \A n \in 1..(Len(series) - 1) : \A r \in DOMAIN series[n].values :
          Unreached(i, series[n], r) => series[n + 1].values[r] = Zero

\* the same for runs whose fear factor 1/(1 + fearSensitivity*F) is finite at the step
StaysZeroWithFiniteFearFactor ==
  \A i \in 1..Len(results) :
    LET series == results[i].history.A
        fears == results[i].history.F
        fearSensitivity == Dflt(inputs[i].sim.adoptionParams.fearSensitivity, One)
    IN  \A n \in 1..(Len(series) - 1) : \A r \in DOMAIN series[n].values :
          (/\ Unreached(i, series[n], r)
           /\ Add(One, Mul(fearSensitivity, fears[n].values[r])) # Zero)
            => series[n + 1].values[r] = Zero

\* a returned run in which an unreached region stayed at 0 for two steps while another
\* region, at a positive adoption, rose
StaysZeroReached ==
  \E i \in 1..Len(results) :
    LET series == results[i].history.A
    IN  /\ Len(series) > 2
        /\ \E r \in DOMAIN series[1].values, s \in DOMAIN series[1].values :
             /\ Unreached(i, series[1], r) /\ Unreached(i, series[2], r)
             /\ series[3].values[r] = Zero
             /\ Gt(series[1].values[s], Zero)
             /\ Gt(series[2].values[s], series[1].values[s])

(***************************************************************************)
(* Claims about what deriveRegulatoryThresholds writes and how its result  *)
(* follows the constraints.                                                *)
(***************************************************************************)
\* C29: after a call of deriveRegulatoryThresholds every cell of the surface has the
\* seedFraction, signalStrength, stats and spatialFocus it had before, the order of the
\* ids in the centerIds of a kernel focus (an object shared with the grid) included.
C29_SurfaceOnlyRead ==
  Len(thr.returned) > 0 => thr.objs = thr.given

\* the calls leave the cells, and every focus object no safe cell refers to, as given
OnlySafeKernelCentersReordered ==
  [][/\ thr'.surface = thr.surface
     /\ \A o \in 1..Len(thr.objs) :
          \/ thr'.objs[o] = thr.objs[o]
          \/ /\ thr.objs[o].type = "kernel"
             /\ \E c \in 1..Len(thr.surface) :
                  thr.surface[c].spatialFocus = o /\ SafeCell(thr.surface[c], thr.riskConstraints)
             /\ thr'.objs[o] = [thr.objs[o] EXCEPT !.centerIds = thr'.objs[o].centerIds]
             /\ SameBag(thr'.objs[o].centerIds, thr.objs[o].centerIds)]_vars

\* the constraints loose keep or raise both ceilings of the constraints strict;
\* maxMeanGlobalFear counts with its default 1
Relaxes(strict, loose) ==
  /\ \/ strict.maxHarmProbability = loose.maxHarmProbability
     \/ AtMost(strict.maxHarmProbability, loose.maxHarmProbability)
  /\ AtMost(Dflt(strict.maxMeanGlobalFear, One), Dflt(loose.maxMeanGlobalFear, One))

\* the result loose has a record for every key of the result strict, with thresholds
\* at least as high
CoversRecords(strict, loose) ==
  \A i \in 1..Len(strict.thresholds) : \E j \in 1..Len(loose.thresholds) :
    /\ loose.thresholds[j].spatialFocusKey = strict.thresholds[i].spatialFocusKey
    /\ Ge(loose.thresholds[j].maxSafeSeedFraction, strict.thresholds[i].maxSafeSeedFraction)
    /\ Ge(loose.thresholds[j].maxSafeSignalStrength,
          strict.thresholds[i].maxSafeSignalStrength)

\* C30: when maxHarmProbability and maxMeanGlobalFear are both raised or kept, a safe
\* result stays safe, every key that had a threshold record still has one, and its
\* maxSafeSeedFraction and maxSafeSignalStrength do not decrease.
C30_RelaxingNeverShrinks ==
  (Len(thr.returned) = 2 /\ Relaxes(thr.riskConstraints, thr.relaxed)) =>
    (thr.returned[1].safe =>
       /\ thr.returned[2].safe
       /\ CoversRecords(thr.returned[1], thr.returned[2]))

\* both ceilings were kept or raised, one of them raised, and the record of a key got
\* a higher maxSafeSeedFraction from a cell that only the raised ceiling admits
C30_Witness ==
  /\ Len(thr.returned) = 2
  /\ Relaxes(thr.riskConstraints, thr.relaxed)
  /\ thr.relaxed # thr.riskConstraints
  /\ thr.returned[1].safe /\ thr.returned[2].safe
  /\ \E i \in 1..Len(thr.returned[1].thresholds), j \in 1..Len(thr.returned[2].thresholds) :
       /\ thr.returned[2].thresholds[j].spatialFocusKey
            = thr.returned[1].thresholds[i].spatialFocusKey
       /\ Gt(thr.returned[2].thresholds[j].maxSafeSeedFraction,
             thr.returned[1].thresholds[i].maxSafeSeedFraction)

====
